---- MODULE Spec2Model ----
(***************************************************************************)
(* Flight e-mail ingestion and trip grouping of AdventureLog               *)
(* (backend/server/flights).  The persistent state is the Flight and       *)
(* FlightGroup tables; every database statement of the grouper is one      *)
(* step of a run, so that runs can be executed one after the other or      *)
(* interleaved.  Instants are minutes.                                     *)
(***************************************************************************)
EXTENDS Integers, Sequences, FiniteSets, TLC

\* ------------------------------------------------------------------ bounds
MaxFlights == 3      \* rows of the Flight table
MaxEdits == 1        \* manual remove-flights requests
MaxConcFlights == 2  \* rows of the Flight table when two runs are interleaved
MaxDay == 2          \* days the clock runs
MaxRelease == 2      \* releases of the rule set that get deployed
MaxScans == 2        \* full rescans counted per release
MaxAddrLen == 5      \* characters of a recipient address
MaxRcpts == 2        \* accepted recipients of one SMTP transaction
MaxDeliveries == 2   \* SMTP transactions
MaxAccounts == 3     \* e-mail accounts
MaxBlocks == 2       \* itinerary blocks of one message
MaxRules == 2        \* airline rules
MaxLegs == 4         \* flights of one trip

\* ------------------------------------------------------- program constants
MaxGapMinutes == 2880          \* timedelta(hours=48)

CONNECTION_THRESHOLD == 24   \* hours
STRPTIME_YEAR == 1900        \* the year of a date parsed without one
NoGroup == 0                   \* flight_group IS NULL
Never == 0                     \* last_synced_at IS NULL; days count from 1
RunIds == {1, 2}
TheUser == "a"
Users == {"a", "a@a"}          \* the usernames of the User table
Chars == {"a", "A", "@"}       \* the characters addresses are written in

\* ------------------------------------------------------------ flight data
\* The legs that e-mails of the model carry: flight number, departure and
\* arrival instant, airports and the booking reference the e-mail prints
\* ("" when it prints none).
Shapes ==
  << [fn |-> "LA1", dep |-> 0,    arr |-> 120,  from |-> "A", to |-> "B", ref |-> ""],
     [fn |-> "LA2", dep |-> 0,    arr |-> 840,  from |-> "A", to |-> "C", ref |-> "R2"],
     [fn |-> "LA3", dep |-> 60,   arr |-> 120,  from |-> "B", to |-> "A", ref |-> "R1"],
     [fn |-> "LA4", dep |-> 3000, arr |-> 3120, from |-> "B", to |-> "A", ref |-> ""],
     [fn |-> "LA5", dep |-> 3001, arr |-> 3121, from |-> "C", to |-> "A", ref |-> "R3"],
     [fn |-> "LA1", dep |-> 6001, arr |-> 6121, from |-> "A", to |-> "B", ref |-> ""],
     [fn |-> "LA7", dep |-> 200,  arr |-> 300,  from |-> "B", to |-> "C", ref |-> "R1"],
     [fn |-> "LA8", dep |-> 6002, arr |-> 6122, from |-> "C", to |-> "B", ref |-> "R1"] >>
ShapeIds == DOMAIN Shapes

\* The e-mails of the model: Message-ID, the day the message arrived, the legs
\* extract_flights_from_email finds in it and what processing does with it:
\* "ok" a rule matches, "nomatch" no rule matches, "raises" it raises.
Catalogue ==
  << [mid |-> "m1", date |-> 1, legs |-> <<3, 7>>, kind |-> "ok"],
     [mid |-> "m2", date |-> 1, legs |-> <<>>,     kind |-> "nomatch"],
     [mid |-> "m3", date |-> 2, legs |-> <<>>,     kind |-> "raises"],
     [mid |-> "m4", date |-> 2, legs |-> <<1, 6>>, kind |-> "ok"],
     [mid |-> "m5", date |-> 2, legs |-> <<2>>,    kind |-> "ok"] >>

VARIABLES
  flights,     \* Flight table: primary key -> row
  trips,       \* FlightGroup table: primary key -> row
  run,         \* the local state of each grouping run
  edits,       \* manual requests made so far
  stable,      \* TRUE when nothing was written since the last run returned
  snap,        \* the tables as each run found them: when it began and when
               \* it entered the merge phase
  goneDeletes, \* the runs that executed g2.delete() on a trip already deleted
  job,         \* the pipeline run (sync_email_account or handle_DATA) of each id
  account,     \* the EmailAccount row of TheUser
  release,     \* the release of the rule set that is deployed
  now,         \* the clock, in days
  fed,         \* <<user, message>> pairs whose processing has returned
  scans,       \* per release, the syncs that fetched everything and saved
  smtpDomain,  \* settings.FLIGHT_SMTP_DOMAIN
  envelope,    \* envelope.rcpt_tos of the open SMTP transaction
  lastRcpt,    \* the RCPT command whose reply is being sent, and its outcome
  deliveries,  \* SMTP transactions that reached DATA
  loop,        \* the flight-sync thread of run_periodic_sync
  call,        \* the arguments of the function call under way
  result       \* what that call returned

pipeVars == <<job, account, release, now, fed, scans>>
smtpVars == <<smtpDomain, envelope, lastRcpt, deliveries>>
auxVars == <<loop, call, result>>
vars == <<flights, trips, run, edits, stable, snap, goneDeletes, pipeVars, smtpVars,
          auxVars>>

FlightIds == DOMAIN flights
Dep(f) == Shapes[flights[f].shape].dep
Arr(f) == Shapes[flights[f].shape].arr
From(f) == Shapes[flights[f].shape].from
To(f) == Shapes[flights[f].shape].to
Ref(f) == flights[f].ref

\* ---------------------------------------------------------------- queries
\* order_by('departure_datetime'): rows with equal departure come in storage
\* order (the primary key of the model).
Before(f, g) == Dep(f) < Dep(g) \/ (Dep(f) = Dep(g) /\ f <= g)

RECURSIVE OrderByDeparture(_)
OrderByDeparture(S) ==
  IF S = {} THEN <<>>
  ELSE LET m == CHOOSE x \in S : \A y \in S : Before(x, y)
       IN <<m>> \o OrderByDeparture(S \ {m})

RECURSIVE OrderById(_)
OrderById(S) ==
  IF S = {} THEN <<>>
  ELSE LET m == CHOOSE x \in S : \A y \in S : x <= y
       IN <<m>> \o OrderById(S \ {m})

Range(s) == {s[k] : k \in DOMAIN s}

\* Flight.objects.filter(user=user, flight_group__isnull=True).order_by(...)
Ungrouped_all(u) == OrderByDeparture({f \in FlightIds : flights[f].user = u})
Ungrouped(u) ==
  OrderByDeparture({f \in FlightIds : flights[f].user = u /\ flights[f].group = NoGroup})

\* g.flights.order_by('departure_datetime')
FlightsOf(g) == OrderByDeparture({f \in FlightIds : flights[f].group = g})

\* FlightGroup.objects.filter(user=user, is_auto_generated=True).order_by('id')
AutoGroups(u) == OrderById({g \in DOMAIN trips : trips[g].user = u /\ trips[g].auto})

\* ------------------------------------------------- grouping.py, pure parts
\* by_booking of auto_group_flights: a dict keeps the order in which its keys
\* were first inserted.
RECURSIVE FirstRefs(_, _)
FirstRefs(s, seen) ==
  IF s = <<>> THEN <<>>
  ELSE LET r == Ref(Head(s))
       IN IF r = "" \/ r \in seen
          THEN FirstRefs(Tail(s), seen)
          ELSE <<r>> \o FirstRefs(Tail(s), seen \cup {r})

ByBooking_pairs(ungrouped) ==
  LET refs == FirstRefs(ungrouped, {})
      all == [k \in 1..Len(refs) |->
                [fl |-> SelectSeq(ungrouped, LAMBDA f : Ref(f) = refs[k]), ref |-> refs[k]]]
  IN SelectSeq(all, LAMBDA e : Len(e.fl) >= 2)
ByBooking(ungrouped) ==
  LET refs == FirstRefs(ungrouped, {})
  IN [k \in 1..Len(refs) |->
        [fl |-> SelectSeq(ungrouped, LAMBDA f : Ref(f) = refs[k]), ref |-> refs[k]]]

\* The comparison of _group_by_proximity.
JoinsCluster_strict(prev, curr, max_gap) == Dep(curr) - Arr(prev) < max_gap
JoinsCluster(prev, curr, max_gap) == Dep(curr) - Arr(prev) <= max_gap

\* The loop of _group_by_proximity from index i on.
RECURSIVE ProximityLoop(_, _, _, _, _)
ProximityLoop(fl, i, groups, current_group, max_gap) ==
  IF i > Len(fl) THEN Append(groups, current_group)
  ELSE IF JoinsCluster(fl[i - 1], fl[i], max_gap)
       THEN ProximityLoop(fl, i + 1, groups, Append(current_group, fl[i]), max_gap)
       ELSE ProximityLoop(fl, i + 1, Append(groups, current_group), <<fl[i]>>, max_gap)

GroupByProximity(fl, max_gap) ==
  IF fl = <<>> THEN <<>> ELSE ProximityLoop(fl, 2, <<>>, <<fl[1]>>, max_gap)

\* "for f in ...: if f.arrival_airport != origin: destination = ...; break"
RECURSIVE FirstArrivalNot(_, _, _)
FirstArrivalNot(fl, origin, default) ==
  IF fl = <<>> THEN default
  ELSE IF To(Head(fl)) # origin THEN To(Head(fl))
       ELSE FirstArrivalNot(Tail(fl), origin, default)

\* The name _create_group_for_flights builds: origin, destination, the
\* departure whose month is printed and the booking reference in brackets.
\* The name keeps the whole instant, so two names the program prints
\* differently are different here.
CreateName(fl, booking_ref) ==
  LET sorted_flights == OrderByDeparture(Range(fl))
      first == sorted_flights[1]
      last == sorted_flights[Len(sorted_flights)]
  IN [origin |-> From(first),
      dest |-> FirstArrivalNot(sorted_flights, From(first), To(last)),
      date |-> Dep(first),
      refs |-> IF booking_ref # "" THEN {booking_ref} ELSE {}]

\* The name _merge_overlapping_groups rebuilds from the combined flights.
MergeName(all_flights) ==
  LET first == all_flights[1]
  IN [origin |-> From(first),
      dest |-> FirstArrivalNot(all_flights, From(first), To(first)),
      date |-> Dep(first),
      refs |-> {Ref(f) : f \in {x \in Range(all_flights) : Ref(x) # ""}}]

\* The span the merge phase reads for a trip: the departure of its first
\* flight and the arrival of its last flight, both in departure order.
SpanStart(fl) == Dep(fl[1])
SpanEnd(fl) == Arr(fl[Len(fl)])

Overlap(g1_flights, g2_flights, max_gap) ==
  /\ SpanStart(g1_flights) <= SpanEnd(g2_flights) + max_gap
  /\ SpanStart(g2_flights) <= SpanEnd(g1_flights) + max_gap

\* ------------------------------------------------------------- run state
NoName == [origin |-> "", dest |-> "", date |-> 0, refs |-> {}]

IdleRun ==
  [pc |-> "idle", user |-> TheUser, queue |-> <<>>, phase |-> 0, newGroup |-> NoGroup,
   remaining |-> <<>>, clusters |-> <<>>, groups |-> <<>>, i |-> 0, j |-> 0,
   g1f |-> <<>>, g2f |-> <<>>, newName |-> NoName,
   created |-> 0, merged |-> 0, second |-> FALSE]

Startable(r) == run[r].pc \in {"idle", "done", "error"}
Tables == <<flights, trips>>
NoSnap == [begin |-> <<<<>>, <<>>>>, merge |-> <<<<>>, <<>>>>]

\* Flight.objects.create(...) of process_email_for_flights for a one-leg e-mail
\* whose message id names the leg; unique_together (user, email_message_id).
DedupKey(message_id, flight_number) == message_id \o ":" \o flight_number

NewFlightRow(u, k) ==
  [user |-> u, key |-> DedupKey("s" \o ToString(k), Shapes[k].fn), shape |-> k,
   ref |-> Shapes[k].ref, group |-> NoGroup]

Inserted(pk, row) == [f \in FlightIds \cup {pk} |-> IF f = pk THEN row ELSE flights[f]]

AddFlight(k, limit) ==
  /\ \A r \in RunIds : Startable(r)
  /\ Cardinality(FlightIds) < limit
  /\ \A f \in FlightIds : flights[f].key # NewFlightRow(TheUser, k).key
  /\ flights' = Inserted(k, NewFlightRow(TheUser, k))
  /\ stable' = FALSE
  /\ run' = [r \in RunIds |-> IdleRun]
  /\ snap' = [r \in RunIds |-> NoSnap]
  /\ UNCHANGED <<trips, edits, goneDeletes, pipeVars, smtpVars>>
  /\ UNCHANGED auxVars

\* FlightGroupViewSet.remove_flights with one flight id.
RemoveFlights(f) ==
  /\ \A r \in RunIds : Startable(r)
  /\ edits < MaxEdits
  /\ flights[f].group # NoGroup
  /\ flights[f].group \in DOMAIN trips
  /\ trips[flights[f].group].user = flights[f].user
  /\ flights' = [flights EXCEPT ![f].group = NoGroup]
  /\ edits' = edits + 1
  /\ stable' = FALSE
  /\ run' = [r \in RunIds |-> IdleRun]
  /\ snap' = [r \in RunIds |-> NoSnap]
  /\ UNCHANGED <<trips, goneDeletes, pipeVars, smtpVars>>
  /\ UNCHANGED auxVars

\* ---------------------------------------------------- auto_group_flights
AfterQueue(q, phase) ==
  IF q # <<>> THEN "create" ELSE IF phase = 1 THEN "p2_read" ELSE "m_groups"

\* Lines 26-52: the first query and the partition by booking reference.
EnterGrouping(rec, u) ==
  LET ungrouped == Ungrouped(u)
      q == ByBooking(ungrouped)
  IN IF ungrouped = <<>>
     THEN [rec EXCEPT !.pc = "m_groups", !.user = u]
     ELSE [rec EXCEPT !.pc = AfterQueue(q, 1), !.user = u, !.queue = q, !.phase = 1]

\* A call of auto_group_flights(u) by run r.
BeginRun(r, u) ==
  /\ run' = [run EXCEPT ![r] = EnterGrouping([IdleRun EXCEPT !.second = stable], u)]
  /\ snap' = [snap EXCEPT ![r] = [begin |-> Tables, merge |-> NoSnap.merge]]

\* FlightGroupViewSet.auto_group: the grouper called for the user.
StartGroup(r) ==
  /\ Startable(r)
  /\ BeginRun(r, TheUser)
  /\ UNCHANGED <<flights, trips, edits, stable, goneDeletes, pipeVars, smtpVars>>
  /\ UNCHANGED auxVars

\* FlightGroup.id is a uuid4: the program only compares keys for equality and
\* for order (order_by('id')).  The model keeps the keys that a row or a run
\* still holds numbered 1..n in that order; a new key takes any rank.
KeysHeld(rn) ==
  UNION {Range(rn[r].groups) \cup ({rn[r].newGroup} \ {NoGroup}) : r \in RunIds}
KeysInUse(tr, rn) == DOMAIN tr \cup KeysHeld(rn)
Rank(U, g) == Cardinality({h \in U : h <= g})

KeysNamed(fl, tr, rn) ==
  {NoGroup} \cup KeysInUse(tr, rn) \cup {fl[f].group : f \in DOMAIN fl}

\* The tables and the locals with every key g renumbered key[g].
RekeyFlights(fl, key) == [f \in DOMAIN fl |-> [fl[f] EXCEPT !.group = key[@]]]
RekeyTrips(tr, key) ==
  [g \in {key[h] : h \in DOMAIN tr} |-> tr[CHOOSE h \in DOMAIN tr : key[h] = g]]
RekeyRuns(rn, key) ==
  [r \in RunIds |-> [rn[r] EXCEPT !.groups = [k \in DOMAIN @ |-> key[@[k]]],
                                   !.newGroup = key[@]]]

AnyRank == 1..(Cardinality(KeysInUse(trips, run)) + 1)
LastRank == {Cardinality(KeysInUse(trips, run)) + 1}

\* _create_group_for_flights, FlightGroup.objects.create
CreateGroup(r, ranks) ==
  /\ run[r].pc = "create"
  /\ LET head == run[r].queue[1]
     IN \E id \in ranks :
          LET up == [g \in KeysNamed(flights, trips, run) |->
                       IF g >= id THEN g + 1 ELSE g]
              moved == RekeyTrips(trips, up)
          IN /\ trips' = [g \in DOMAIN moved \cup {id} |->
                            IF g = id
                            THEN [user |-> run[r].user, auto |-> TRUE,
                                  name |-> CreateName(head.fl, head.ref)]
                            ELSE moved[g]]
             /\ flights' = RekeyFlights(flights, up)
             /\ run' = [RekeyRuns(run, up) EXCEPT ![r].pc = "assign", ![r].newGroup = id]
  /\ stable' = FALSE
  /\ UNCHANGED <<edits, snap, goneDeletes, pipeVars, smtpVars>>
  /\ UNCHANGED auxVars

\* _create_group_for_flights, Flight.objects.filter(id__in=...).update(...)
AssignedTo(fl, g) ==
  [f \in DOMAIN flights |->
     IF f \in Range(fl) THEN [flights[f] EXCEPT !.group = g] ELSE flights[f]]

\* The keys no row and no run holds any more are dropped from the numbering.
Compacted(fl, tr, rn) ==
  LET key == [g \in KeysNamed(fl, tr, rn) |-> Rank(KeysInUse(tr, rn), g)]
  IN <<RekeyFlights(fl, key), RekeyTrips(tr, key), RekeyRuns(rn, key)>>

\* An exception leaves the run: its locals are gone.
Raised(r) == [run EXCEPT ![r] = [IdleRun EXCEPT !.pc = "error", !.second = run[r].second]]

\* The foreign key flight_group: an update that points a flight at a row
\* that is gone raises IntegrityError.
AssignFlights(r) ==
  /\ run[r].pc = "assign"
  /\ IF run[r].newGroup \in DOMAIN trips
     THEN /\ flights' = AssignedTo(run[r].queue[1].fl, run[r].newGroup)
          /\ trips' = trips
          /\ run' = [run EXCEPT ![r].pc = AfterQueue(Tail(run[r].queue), run[r].phase),
                                 ![r].queue = Tail(@),
                                 ![r].newGroup = NoGroup,
                                 ![r].created = @ + 1]
     ELSE LET c == Compacted(flights, trips, Raised(r))
          IN flights' = c[1] /\ trips' = c[2] /\ run' = c[3]
  /\ stable' = FALSE
  /\ UNCHANGED <<edits, snap, goneDeletes, pipeVars, smtpVars>>
  /\ UNCHANGED auxVars

\* Phase 2: the second query and _group_by_proximity; clusters of 2 or more.
ProximityPhase(r) ==
  /\ run[r].pc = "p2_read"
  /\ LET remaining == Ungrouped(run[r].user)
         proximity_groups == GroupByProximity(remaining, MaxGapMinutes)
         big == SelectSeq(proximity_groups, LAMBDA c : Len(c) >= 2)
         q == [k \in 1..Len(big) |-> [fl |-> big[k], ref |-> ""]]
     IN run' = [run EXCEPT ![r].pc = AfterQueue(q, 2), ![r].phase = 2, ![r].queue = q,
                            ![r].remaining = remaining,
                            ![r].clusters = proximity_groups]
  /\ UNCHANGED <<flights, trips, edits, stable, snap, goneDeletes, pipeVars, smtpVars>>
  /\ UNCHANGED auxVars

\* ------------------------------------------------ _merge_overlapping_groups
\* "while changed": the list of the user's auto-generated trips, by id.
ReadGroups(r) ==
  /\ run[r].pc = "m_groups"
  /\ run' = [run EXCEPT ![r].pc = "m_g1", ![r].groups = AutoGroups(run[r].user),
                         ![r].i = 1, ![r].j = 0, ![r].g1f = <<>>, ![r].g2f = <<>>]
  /\ snap' = IF run[r].merged = 0 THEN [snap EXCEPT ![r].merge = Tables] ELSE snap
  /\ UNCHANGED <<flights, trips, edits, stable, goneDeletes, pipeVars, smtpVars>>
  /\ UNCHANGED auxVars

\* "for i, g1 in enumerate(groups)": g1's flights; the run returns when the
\* outer loop ends without a merge.
ReadG1(r) ==
  /\ run[r].pc = "m_g1"
  /\ IF run[r].i > Len(run[r].groups)
     THEN LET ret == [run EXCEPT ![r].pc = "done", ![r].groups = <<>>, ![r].i = 0,
                                 ![r].remaining = <<>>, ![r].clusters = <<>>,
                                 ![r].phase = 0]
              c == Compacted(flights, trips, ret)
          IN /\ flights' = c[1]
             /\ trips' = c[2]
             /\ run' = c[3]
             /\ stable' = TRUE
     ELSE /\ LET g1_flights == FlightsOf(run[r].groups[run[r].i])
             IN IF g1_flights = <<>>
                THEN run' = [run EXCEPT ![r].i = @ + 1]
                ELSE run' = [run EXCEPT ![r].pc = "m_g2", ![r].g1f = g1_flights,
                                        ![r].j = run[r].i + 1]
          /\ UNCHANGED <<flights, trips, stable>>
  /\ UNCHANGED <<edits, snap, goneDeletes, pipeVars, smtpVars>>
  /\ UNCHANGED auxVars

\* "for g2 in groups[i + 1:]": g2's flights and the overlap test.
ReadG2(r) ==
  /\ run[r].pc = "m_g2"
  /\ IF run[r].j > Len(run[r].groups)
     THEN run' = [run EXCEPT ![r].pc = "m_g1", ![r].i = @ + 1, ![r].j = 0,
                             ![r].g1f = <<>>]
     ELSE LET g2_flights == FlightsOf(run[r].groups[run[r].j])
          IN IF g2_flights = <<>>
             THEN run' = [run EXCEPT ![r].j = @ + 1]
             ELSE IF Overlap(run[r].g1f, g2_flights, MaxGapMinutes)
                  THEN run' = [run EXCEPT ![r].pc = "m_move", ![r].g2f = g2_flights]
                  ELSE run' = [run EXCEPT ![r].j = @ + 1]
  /\ UNCHANGED <<flights, trips, edits, stable, snap, goneDeletes, pipeVars, smtpVars>>
  /\ UNCHANGED auxVars

G1(r) == run[r].groups[run[r].i]
G2(r) == run[r].groups[run[r].j]

\* Flight.objects.filter(flight_group=g2).update(flight_group=g1)
MovedTo_all(g2, g1) ==
  [f \in DOMAIN flights |->
     IF flights[f].group # NoGroup THEN [flights[f] EXCEPT !.group = g1] ELSE flights[f]]
MovedTo(g2, g1) ==
  [f \in DOMAIN flights |->
     IF flights[f].group = g2 THEN [flights[f] EXCEPT !.group = g1] ELSE flights[f]]

MoveFlights(r) ==
  /\ run[r].pc = "m_move"
  /\ IF G1(r) \in DOMAIN trips \/ \A f \in FlightIds : flights[f].group # G2(r)
     THEN /\ flights' = MovedTo(G2(r), G1(r))
          /\ trips' = trips
          /\ run' = [run EXCEPT ![r].pc = "m_reread", ![r].g1f = <<>>, ![r].g2f = <<>>]
     ELSE LET c == Compacted(flights, trips, Raised(r))
          IN flights' = c[1] /\ trips' = c[2] /\ run' = c[3]
  /\ stable' = FALSE
  /\ UNCHANGED <<edits, snap, goneDeletes, pipeVars, smtpVars>>
  /\ UNCHANGED auxVars

\* all_flights = list(g1.flights...); all_flights[0] raises IndexError when
\* the trip has no flight.
RebuildName(r) ==
  /\ run[r].pc = "m_reread"
  /\ LET all_flights == FlightsOf(G1(r))
     IN IF all_flights = <<>>
        THEN LET c == Compacted(flights, trips, Raised(r))
             IN flights' = c[1] /\ trips' = c[2] /\ run' = c[3]
        ELSE /\ run' = [run EXCEPT ![r].pc = "m_save", ![r].newName = MergeName(all_flights)]
             /\ UNCHANGED <<flights, trips>>
  /\ UNCHANGED <<edits, stable, snap, goneDeletes, pipeVars, smtpVars>>
  /\ UNCHANGED auxVars

\* g1.save(update_fields=['name']) raises DatabaseError when the row is gone.
SaveName(r) ==
  /\ run[r].pc = "m_save"
  /\ IF G1(r) \in DOMAIN trips
     THEN /\ trips' = [trips EXCEPT ![G1(r)].name = run[r].newName]
          /\ run' = [run EXCEPT ![r].pc = "m_delete", ![r].newName = NoName]
          /\ flights' = flights
     ELSE LET c == Compacted(flights, trips, Raised(r))
          IN flights' = c[1] /\ trips' = c[2] /\ run' = c[3]
  /\ stable' = FALSE
  /\ UNCHANGED <<edits, snap, goneDeletes, pipeVars, smtpVars>>
  /\ UNCHANGED auxVars

\* g2.delete(): on_delete=SET_NULL clears the flights still pointing at g2,
\* then the row is deleted (no error when it is already gone).
DeletedGroup(g2) ==
  [f \in DOMAIN flights |->
     IF flights[f].group = g2 THEN [flights[f] EXCEPT !.group = NoGroup] ELSE flights[f]]

DeleteG2(r) ==
  /\ run[r].pc = "m_delete"
  /\ LET c == Compacted(DeletedGroup(G2(r)),
                        [g \in DOMAIN trips \ {G2(r)} |-> trips[g]],
                        [run EXCEPT ![r].pc = "m_groups", ![r].merged = @ + 1,
                                    ![r].groups = <<>>, ![r].i = 0, ![r].j = 0])
     IN flights' = c[1] /\ trips' = c[2] /\ run' = c[3]
  /\ goneDeletes' = IF G2(r) \in DOMAIN trips THEN goneDeletes ELSE goneDeletes \cup {r}
  /\ stable' = FALSE
  /\ UNCHANGED <<edits, snap, pipeVars, smtpVars>>
  /\ UNCHANGED auxVars

\* ------------------------------------------------------ e-mail pipeline
\* RULES_VERSION of builtin_rules, which sync_email_account imports.
RULES_VERSION == ToString(release)

NewAccount == [user |-> TheUser, last_synced_at |-> Never, last_rules_version |-> ""]

Reverse(s) == [k \in 1..Len(s) |-> s[Len(s) + 1 - k]]

\* fetch_emails_imap: SINCE when a date is given, else ALL; the messages the
\* server holds by then, most recent first.
FetchEmails(since_date) ==
  Reverse(SelectSeq([c \in 1..Len(Catalogue) |-> c],
                    LAMBDA c : /\ Catalogue[c].date <= now
                               /\ since_date = Never \/ Catalogue[c].date >= since_date))

\* sync_email_account: the date the fetch starts from.
SinceDate_dateOnly(acct, version) == acct.last_synced_at
SinceDate(acct, version) ==
  IF acct.last_rules_version # version THEN Never ELSE acct.last_synced_at

IdleJob ==
  [kind |-> "none", pc |-> "idle", user |-> "", since |-> Never, fetched |-> FALSE,
   msgs |-> <<>>, m |-> 0, cur |-> 0, legs |-> <<>>, seen |-> 0, refeed |-> FALSE,
   msgCreated |-> 0, created |-> 0, errors |-> <<>>, lost |-> 0, visited |-> <<>>,
   rcpts |-> <<>>, k |-> 0, failed |-> 0, reply |-> ""]

groupVars == <<flights, trips, run, edits, stable, snap, goneDeletes>>

StartSync(r) ==
  /\ job[r].pc = "idle"
  /\ job' = [job EXCEPT ![r] = [IdleJob EXCEPT !.kind = "sync", !.pc = "fetch",
                                               !.user = account.user,
                                               !.since = SinceDate(account, RULES_VERSION)]]
  /\ UNCHANGED <<groupVars, account, release, now, fed, scans, smtpVars>>
  /\ UNCHANGED auxVars

\* fetch_emails_for_account returns the messages ...
FetchReturns(r) ==
  /\ job[r].pc = "fetch"
  /\ job' = [job EXCEPT ![r].pc = "msg", ![r].fetched = TRUE,
                         ![r].msgs = FetchEmails(job[r].since), ![r].m = 1]
  /\ UNCHANGED <<groupVars, account, release, now, fed, scans, smtpVars>>
  /\ UNCHANGED auxVars

\* ... or raises: the outer handler records a connection error and returns.
FetchRaises_continues(r) ==
  /\ job[r].pc = "fetch"
  /\ job' = [job EXCEPT ![r].pc = "save", ![r].errors = Append(@, "Connection error")]
  /\ UNCHANGED <<groupVars, account, release, now, fed, scans, smtpVars>>
  /\ UNCHANGED auxVars
FetchRaises(r) ==
  /\ job[r].pc = "fetch"
  /\ job' = [job EXCEPT ![r].pc = "ret", ![r].errors = Append(@, "Connection error")]
  /\ UNCHANGED <<groupVars, account, release, now, fed, scans, smtpVars>>
  /\ UNCHANGED auxVars

\* process_email_for_flights up to its loop, for a message a rule matches.
Extracted(j, c) ==
  [j EXCEPT !.pc = "check", !.cur = c, !.legs = Catalogue[c].legs, !.seen = 0,
            !.msgCreated = 0, !.refeed = <<j.user, c>> \in fed]

\* "except Exception as e: summary['errors'].append(str(e))", per message.
MessageFailure_propagates(j) ==
  [j EXCEPT !.pc = "ret", !.errors = Append(@, "Connection error")]
MessageFailure(j) == [j EXCEPT !.m = @ + 1, !.errors = Append(@, "error")]

\* "for email_msg in email_messages": the next message, each in its own try.
NextMessage(r) ==
  /\ job[r].pc = "msg"
  /\ LET j == job[r]
         c == j.msgs[j.m]
         started == [j EXCEPT !.visited = Append(@, c)]
     IN IF j.m > Len(j.msgs)
        THEN job' = [job EXCEPT ![r].pc = "save"] /\ fed' = fed
        ELSE IF Catalogue[c].kind = "raises"
        THEN /\ job' = [job EXCEPT ![r] = MessageFailure(started)]
             /\ fed' = fed
        ELSE IF Catalogue[c].kind = "nomatch"
        THEN /\ job' = [job EXCEPT ![r] = [started EXCEPT !.m = @ + 1]]
             /\ fed' = fed \cup {<<j.user, c>>}
        ELSE /\ job' = [job EXCEPT ![r] = Extracted(started, c)]
             /\ fed' = fed
  /\ UNCHANGED <<groupVars, account, release, now, scans, smtpVars>>
  /\ UNCHANGED auxVars

\* Flight.objects.filter(user=user, email_message_id=msg_id_for_dedup).exists()
FlightExists_never(u, key) == FALSE
FlightExists(u, key) == \E f \in FlightIds : flights[f].user = u /\ flights[f].key = key

\* unique_together (user, email_message_id): the insert is refused.
UniqueViolation_never(u, key) == FALSE
UniqueViolation(u, key) == \E f \in FlightIds : flights[f].user = u /\ flights[f].key = key

LegKey(c, k) == DedupKey(Catalogue[c].mid, Shapes[k].fn)

\* The end of process_email_for_flights, back in the caller.
Returned(j) ==
  IF j.kind = "sync"
  THEN [j EXCEPT !.pc = "msg", !.m = @ + 1, !.created = @ + j.msgCreated]
  ELSE IF j.msgCreated > 0
       THEN [j EXCEPT !.pc = "group", !.created = j.msgCreated]
       ELSE [j EXCEPT !.pc = "rcpt", !.k = @ + 1]

\* "for flight_data in flights_data": the duplicate check of the next leg.
CheckLeg(r) ==
  /\ job[r].pc = "check"
  /\ LET j == job[r]
     IN IF j.legs = <<>>
        THEN /\ job' = [job EXCEPT ![r] = Returned(j)]
             /\ fed' = fed \cup {<<j.user, j.cur>>}
        ELSE /\ IF FlightExists(j.user, LegKey(j.cur, Head(j.legs)))
                THEN job' = [job EXCEPT ![r].legs = Tail(@), ![r].seen = @ + 1]
                ELSE job' = [job EXCEPT ![r].pc = "insert"]
             /\ fed' = fed
  /\ UNCHANGED <<groupVars, account, release, now, scans, smtpVars>>
  /\ UNCHANGED auxVars

\* "except Exception as e: logger.error(...)" around Flight.objects.create.
CreateFailure_propagates(j) ==
  IF j.kind = "sync"
  THEN [j EXCEPT !.pc = "msg", !.m = @ + 1, !.errors = Append(@, "error")]
  ELSE [j EXCEPT !.pc = "rcpt", !.k = @ + 1, !.failed = @ + 1]
CreateFailure(j) ==
  [j EXCEPT !.pc = "check", !.legs = Tail(@), !.seen = @ + 1, !.lost = @ + 1]

NewPk == Cardinality(FlightIds) + 1

\* Flight.objects.create(...) inside its try.
InsertLeg(r) ==
  /\ job[r].pc = "insert"
  /\ LET j == job[r]
         k == Head(j.legs)
         row == [user |-> j.user, key |-> LegKey(j.cur, k), shape |-> k,
                 ref |-> Shapes[k].ref, group |-> NoGroup]
     IN IF UniqueViolation(j.user, row.key)
        THEN /\ job' = [job EXCEPT ![r] = CreateFailure(j)]
             /\ UNCHANGED <<flights, stable>>
        ELSE /\ flights' = Inserted(NewPk, row)
             /\ stable' = FALSE
             /\ job' = [job EXCEPT ![r].pc = "check", ![r].legs = Tail(@),
                                    ![r].seen = @ + 1, ![r].msgCreated = @ + 1]
  /\ UNCHANGED <<trips, run, edits, snap, goneDeletes,
                 account, release, now, fed, scans, smtpVars>>
  /\ UNCHANGED auxVars

\* email_account.save(update_fields=['last_synced_at', 'last_rules_version'])
SaveAccount(r) ==
  /\ job[r].pc = "save"
  /\ account' = [account EXCEPT !.last_synced_at = now,
                                !.last_rules_version = RULES_VERSION]
  /\ scans' = IF job[r].since = Never /\ scans[release] < MaxScans
              THEN [scans EXCEPT ![release] = @ + 1]
              ELSE scans
  /\ job' = [job EXCEPT ![r].pc = IF job[r].created > 0 THEN "group" ELSE "ret"]
  /\ UNCHANGED <<groupVars, release, now, fed, smtpVars>>
  /\ UNCHANGED auxVars

\* auto_group_flights(user), called by the pipeline run.
CallGrouper(r) ==
  /\ job[r].pc = "group"
  /\ BeginRun(r, job[r].user)
  /\ job' = [job EXCEPT ![r].pc = "grouping"]
  /\ UNCHANGED <<flights, trips, edits, stable, goneDeletes,
                 account, release, now, fed, scans, smtpVars>>
  /\ UNCHANGED auxVars

\* "except Exception" of handle_DATA, per recipient.
RecipientFailure_propagates(j) == [j EXCEPT !.pc = "ret", !.reply = "500 Error"]
RecipientFailure(j) == [j EXCEPT !.pc = "rcpt", !.k = @ + 1, !.failed = @ + 1]

\* The grouper returned or raised: back in the pipeline run.
AfterGrouping(r) ==
  /\ job[r].pc = "grouping"
  /\ run[r].pc \in {"done", "error"}
  /\ LET j == job[r]
     IN IF j.kind = "sync"
        THEN job' = [job EXCEPT ![r].pc = "ret",
                                ![r].errors = IF run[r].pc = "error"
                                              THEN Append(@, "Connection error") ELSE @]
        ELSE IF run[r].pc = "error"
             THEN job' = [job EXCEPT ![r] = RecipientFailure(j)]
             ELSE job' = [job EXCEPT ![r].pc = "rcpt", ![r].k = @ + 1]
  /\ run' = [run EXCEPT ![r] = IdleRun]
  /\ UNCHANGED <<flights, trips, edits, stable, snap, goneDeletes,
                 account, release, now, fed, scans, smtpVars>>
  /\ UNCHANGED auxVars

\* The summary is returned, or the SMTP reply is sent and the transaction ends.
Return(r) ==
  /\ job[r].pc = "ret"
  /\ job' = [job EXCEPT ![r] = IdleJob]
  /\ envelope' = IF job[r].kind = "deliver" THEN <<>> ELSE envelope
  /\ UNCHANGED <<groupVars, account, release, now, fed, scans, smtpDomain, lastRcpt,
                 deliveries>>
  /\ UNCHANGED auxVars

AllIdle == \A r \in RunIds : job[r].pc = "idle"
\* The SMTP server handles one command at a time.
SmtpIdle == \A r \in RunIds : job[r].kind # "deliver"

Tick ==
  /\ AllIdle
  /\ now < MaxDay
  /\ now' = now + 1
  /\ UNCHANGED <<groupVars, job, account, release, fed, scans, smtpVars>>
  /\ UNCHANGED auxVars

\* A release with a new RULES_VERSION is deployed.
BumpRules ==
  /\ AllIdle
  /\ release < MaxRelease
  /\ release' = release + 1
  /\ UNCHANGED <<groupVars, job, account, now, fed, scans, smtpVars>>
  /\ UNCHANGED auxVars

\* ----------------------------------------------------- inbound SMTP server
Lower(c) == IF c = "A" THEN "a" ELSE c
LowerSeq(s) == [k \in DOMAIN s |-> Lower(s[k])]

RECURSIVE Join(_)
Join(s) == IF s = <<>> THEN "" ELSE Head(s) \o Join(Tail(s))

\* address.rsplit('@', 1), for an address with an '@' in it.
RSplit(s) ==
  LET p == CHOOSE q \in DOMAIN s : s[q] = "@" /\ \A x \in (q + 1)..Len(s) : s[x] # "@"
  IN <<SubSeq(s, 1, p - 1), SubSeq(s, p + 1, Len(s))>>

\* addr_domain.lower() != domain.lower()
SameDomain_exact(addr_domain, domain) == addr_domain = domain
SameDomain(addr_domain, domain) == LowerSeq(addr_domain) = LowerSeq(domain)

\* The reply of handle_RCPT.
RcptReply(domain, address) ==
  IF domain = <<>> THEN "550 Service not configured"
  ELSE IF "@" \notin Range(address) THEN "550 Invalid address"
  ELSE IF ~SameDomain(RSplit(address)[2], domain) THEN "550 Unknown domain"
  ELSE IF Join(RSplit(address)[1]) \notin Users THEN "550 Unknown user"
  ELSE "250 OK"

NoRcpt == [address |-> <<>>, reply |-> "", before |-> <<>>]
Addresses == UNION {[1..n -> Chars] : n \in 0..MaxAddrLen}

HandleRcpt(address) ==
  /\ SmtpIdle
  /\ lastRcpt = NoRcpt
  /\ deliveries < MaxDeliveries
  /\ Len(envelope) < MaxRcpts
  /\ envelope' = IF RcptReply(smtpDomain, address) = "250 OK"
                 THEN Append(envelope, address) ELSE envelope
  /\ lastRcpt' = [address |-> address, reply |-> RcptReply(smtpDomain, address),
                  before |-> envelope]
  /\ UNCHANGED <<groupVars, pipeVars, smtpDomain, deliveries>>
  /\ UNCHANGED auxVars

\* The reply handle_RCPT returned is sent; the server reads the next command.
ReplySent ==
  /\ lastRcpt # NoRcpt
  /\ lastRcpt' = NoRcpt
  /\ UNCHANGED <<groupVars, pipeVars, smtpDomain, envelope, deliveries>>
  /\ UNCHANGED auxVars

\* handle_DATA entered for a transaction with the recipients rcpt_tos and the
\* message c as content.
StartData(r, rcpt_tos, c) ==
  /\ SmtpIdle
  /\ job[r].pc = "idle"
  /\ lastRcpt = NoRcpt
  /\ deliveries < MaxDeliveries
  /\ rcpt_tos # <<>>
  /\ job' = [job EXCEPT ![r] = [IdleJob EXCEPT !.kind = "deliver", !.pc = "rcpt",
                                               !.rcpts = rcpt_tos, !.k = 1, !.cur = c]]
  /\ deliveries' = deliveries + 1
  /\ UNCHANGED <<groupVars, account, release, now, fed, scans, smtpDomain, envelope,
                 lastRcpt>>
  /\ UNCHANGED auxVars

\* "for rcpt in envelope.rcpt_tos": the user lookup and the message parsed
\* and processed inside the try.
NextRcpt(r) ==
  /\ job[r].pc = "rcpt"
  /\ LET j == job[r]
         u == Join(RSplit(j.rcpts[j.k])[1])
         started == [j EXCEPT !.visited = Append(@, j.k), !.user = u]
     IN IF j.k > Len(j.rcpts)
        THEN /\ job' = [job EXCEPT ![r].pc = "ret",
                                   ![r].reply = "250 Message accepted for delivery"]
             /\ fed' = fed
        ELSE IF u \notin Users
        THEN job' = [job EXCEPT ![r].k = @ + 1] /\ fed' = fed
        ELSE IF Catalogue[j.cur].kind = "raises"
        THEN job' = [job EXCEPT ![r] = RecipientFailure(started)] /\ fed' = fed
        ELSE IF Catalogue[j.cur].kind = "nomatch"
        THEN /\ job' = [job EXCEPT ![r] = [started EXCEPT !.k = @ + 1]]
             /\ fed' = fed \cup {<<u, j.cur>>}
        ELSE /\ job' = [job EXCEPT ![r] = Extracted(started, j.cur)]
             /\ fed' = fed
  /\ UNCHANGED <<groupVars, account, release, now, scans, smtpVars>>
  /\ UNCHANGED auxVars

AddressOf(u) == <<u, "@", "a">>

\* ------------------------------------------------- periodic flight sync
\* run_periodic_sync.flight_sync_loop and the sync_flight_emails command.
\* Accounts are numbered in the order the accounts query returns them.
AccountIds == 1..MaxAccounts
Outcomes == {"ok", "errors", "raised"}

IdleLoop ==
  [pc |-> "off", stop |-> FALSE, active |-> {}, todo |-> <<>>, done |-> <<>>,
   prev |-> <<>>, hungAt |-> 0]
NoCall == [fn |-> "none"]
NoResult == [fn |-> "none"]

restVars == <<groupVars, pipeVars, smtpVars, call, result>>

RECURSIVE InOrder(_)
InOrder(S) ==
  IF S = {} THEN <<>>
  ELSE LET a == CHOOSE x \in S : \A y \in S : x <= y
       IN <<a>> \o InOrder(S \ {a})

\* _stop_event.wait(30): the delay before the first cycle.
InitialDelay ==
  /\ loop.pc = "start"
  /\ loop' = [loop EXCEPT !.pc = IF loop.stop THEN "exit" ELSE "test"]
  /\ UNCHANGED restVars

\* while not _stop_event.is_set()
TestStop ==
  /\ loop.pc = "test"
  /\ loop' = [loop EXCEPT !.pc = IF loop.stop THEN "exit" ELSE "run"]
  /\ UNCHANGED restVars

\* run_flight_email_sync -> Command.handle: the query of the active accounts,
\* and the return when there is none.
BeginCycle ==
  /\ loop.pc = "run"
  /\ loop' = [loop EXCEPT !.pc = IF loop.active = {} THEN "wait" ELSE "sync",
                          !.todo = InOrder(loop.active),
                          !.prev = loop.done,
                          !.done = <<>>]
  /\ UNCHANGED restVars

\* The loop of Command.handle after the sync of account a ended with outcome o:
\* summary without errors, summary with errors, or an exception (except at
\* line 42); the loop goes on with the next account.
AccountSynced_propagates(l, a, o) ==
  IF o = "raised"
  THEN [l EXCEPT !.done = Append(@, <<a, o>>), !.todo = <<>>]
  ELSE [l EXCEPT !.done = Append(@, <<a, o>>), !.todo = Tail(@)]
AccountSynced(l, a, o) ==
  [l EXCEPT !.done = Append(@, <<a, o>>), !.todo = Tail(@)]

\* sync_email_account(account) returns or raises.
SyncAccount ==
  /\ loop.pc = "sync"
  /\ loop.todo # <<>>
  /\ \E o \in Outcomes : loop' = AccountSynced(loop, Head(loop.todo), o)
  /\ UNCHANGED restVars

\* The IMAP server of the account accepts the connection and never answers:
\* imaplib.IMAP4_SSL(host, port) and conn.login are called without a timeout.
FetchHangs ==
  /\ loop.pc = "sync"
  /\ loop.todo # <<>>
  /\ loop' = [loop EXCEPT !.pc = "hung", !.hungAt = Head(loop.todo)]
  /\ UNCHANGED restVars

\* The accounts are exhausted: handle returns, the loop waits for the interval.
EndCycle ==
  /\ loop.pc = "sync"
  /\ loop.todo = <<>>
  /\ loop' = [loop EXCEPT !.pc = "wait"]
  /\ UNCHANGED restVars

\* _stop_event.wait(FLIGHT_SYNC_INTERVAL)
WaitInterval ==
  /\ loop.pc = "wait"
  /\ loop' = [loop EXCEPT !.pc = IF loop.stop THEN "exit" ELSE "test"]
  /\ UNCHANGED restVars

\* SIGTERM or SIGINT: _handle_termination sets the stop event.
RequestStop ==
  /\ loop.pc \notin {"off", "exit"}
  /\ ~loop.stop
  /\ loop' = [loop EXCEPT !.stop = TRUE]
  /\ UNCHANGED restVars

\* main joins the thread for 5 seconds and returns: the daemon thread ends
\* with the process wherever it is.
ProcessExits ==
  /\ loop.stop
  /\ loop.pc \notin {"off", "exit"}
  /\ loop' = [loop EXCEPT !.pc = "exit"]
  /\ UNCHANGED restVars

InitLoop ==
  /\ flights = <<>>
  /\ trips = <<>>
  /\ run = [r \in RunIds |-> IdleRun]
  /\ edits = 0
  /\ stable = FALSE
  /\ snap = [r \in RunIds |-> NoSnap]
  /\ goneDeletes = {}
  /\ job = [r \in RunIds |-> IdleJob]
  /\ account = NewAccount
  /\ release = 1
  /\ now = 1
  /\ fed = {}
  /\ scans = [v \in 1..(MaxRelease + 1) |-> 0]
  /\ smtpDomain = <<"a">>
  /\ envelope = <<>>
  /\ lastRcpt = NoRcpt
  /\ deliveries = 0
  /\ loop \in {[IdleLoop EXCEPT !.pc = "start", !.active = S] : S \in SUBSET AccountIds}
  /\ call = NoCall
  /\ result = NoResult

ThreadStep ==
  InitialDelay \/ TestStop \/ BeginCycle \/ SyncAccount \/ EndCycle \/ WaitInterval

NextLoop ==
  \/ InitialDelay
  \/ TestStop
  \/ BeginCycle
  \/ SyncAccount
  \/ FetchHangs
  \/ EndCycle
  \/ WaitInterval
  \/ RequestStop
  \/ ProcessExits

\* The thread is scheduled as long as it can run; nothing forces a stop
\* request, and nothing forces a silent server to answer.
SpecLoop == InitLoop /\ [][NextLoop]_vars /\ WF_vars(ThreadStep)

\* ------------------------------------------------------- specifications
Init ==
  /\ flights = <<>>
  /\ trips = <<>>
  /\ run = [r \in RunIds |-> IdleRun]
  /\ edits = 0
  /\ stable = FALSE
  /\ snap = [r \in RunIds |-> NoSnap]
  /\ goneDeletes = {}
  /\ job = [r \in RunIds |-> IdleJob]
  /\ account = NewAccount
  /\ release = 1
  /\ now = 1
  /\ fed = {}
  /\ scans = [v \in 1..(MaxRelease + 1) |-> 0]
  /\ smtpDomain = <<"a">>
  /\ envelope = <<>>
  /\ lastRcpt = NoRcpt
  /\ deliveries = 0
  /\ loop = IdleLoop
  /\ call = NoCall
  /\ result = NoResult

\* Grouping runs of one user, one after the other.
Ingest == \E k \in ShapeIds : AddFlight(k, MaxFlights)
Regroup == \E f \in FlightIds : RemoveFlights(f)

NextSeq ==
  \/ Ingest
  \/ Regroup
  \/ StartGroup(1)
  \/ CreateGroup(1, AnyRank)
  \/ AssignFlights(1)
  \/ ProximityPhase(1)
  \/ ReadGroups(1)
  \/ ReadG1(1)
  \/ ReadG2(1)
  \/ MoveFlights(1)
  \/ RebuildName(1)
  \/ SaveName(1)
  \/ DeleteG2(1)

SpecSeq == Init /\ [][NextSeq]_vars

\* ------------------------------------------------------------ the REST API
\* FlightViewSet.perform_create is between its save and its call of the
\* grouper.
Pending == result.fn = "create" /\ result.status = "saved"

\* The primary key of a flight created by hand.
ManualPk ==
  CHOOSE p \in (Len(Shapes) + 1)..(Len(Shapes) + MaxFlights + 1) :
    /\ p \notin FlightIds
    /\ \A q \in (Len(Shapes) + 1)..(p - 1) : q \in FlightIds

\* POST /flights/ by user u: FlightWriteSerializer takes flight_group (any
\* trip's key) and no email_message_id, which keeps its default ''; the row
\* is saved unless unique_together (user, email_message_id) refuses it.
ApiCreate(u, k, g) ==
  /\ Startable(1)
  /\ ~Pending
  /\ IF UniqueViolation(u, "")
     THEN /\ result' = [fn |-> "create", user |-> u, had |-> TRUE, status |-> "rejected"]
          /\ UNCHANGED <<flights, stable, run, snap>>
     ELSE /\ Cardinality(FlightIds) < MaxFlights
          /\ flights' = Inserted(ManualPk, [user |-> u, key |-> "", shape |-> k,
                                            ref |-> Shapes[k].ref, group |-> g])
          /\ result' = [fn |-> "create", user |-> u, had |-> FALSE, status |-> "saved"]
          /\ stable' = FALSE
          /\ run' = [r \in RunIds |-> IdleRun]
          /\ snap' = [r \in RunIds |-> NoSnap]
  /\ UNCHANGED <<trips, edits, goneDeletes, pipeVars, smtpVars, loop, call>>

\* perform_create, after the save: auto_group_flights(self.request.user).
ApiAutoGroup ==
  /\ Pending
  /\ BeginRun(1, result.user)
  /\ result' = [result EXCEPT !.status = "created"]
  /\ UNCHANGED <<flights, trips, edits, stable, goneDeletes, pipeVars, smtpVars, loop, call>>

\* PATCH /flights/<f>/ by user u with flight_group = g.
ApiUpdate(u, f, g) ==
  /\ Startable(1)
  /\ ~Pending
  /\ edits < MaxEdits
  /\ flights[f].user = u
  /\ flights[f].group # g
  /\ flights' = [flights EXCEPT ![f].group = g]
  /\ edits' = edits + 1
  /\ stable' = FALSE
  /\ run' = [r \in RunIds |-> IdleRun]
  /\ snap' = [r \in RunIds |-> NoSnap]
  /\ UNCHANGED <<trips, goneDeletes, pipeVars, smtpVars, auxVars>>

\* FlightGroupViewSet.add_flights with one flight id, by user u.
AddFlights(u, g, f) ==
  /\ Startable(1)
  /\ ~Pending
  /\ edits < MaxEdits
  /\ trips[g].user = u
  /\ flights[f].user = u
  /\ flights[f].group # g
  /\ flights' = [flights EXCEPT ![f].group = g]
  /\ edits' = edits + 1
  /\ stable' = FALSE
  /\ run' = [r \in RunIds |-> IdleRun]
  /\ snap' = [r \in RunIds |-> NoSnap]
  /\ UNCHANGED <<trips, goneDeletes, pipeVars, smtpVars, auxVars>>

NextApi ==
  \/ ~Pending /\ \E k \in {1, 3} : AddFlight(k, MaxFlights)
  \/ \E u \in Users, k \in {4, 7}, g \in DOMAIN trips \cup {NoGroup} : ApiCreate(u, k, g)
  \/ ApiAutoGroup
  \/ \E u \in Users, f \in FlightIds, g \in DOMAIN trips \cup {NoGroup} : ApiUpdate(u, f, g)
  \/ \E u \in Users, g \in DOMAIN trips, f \in FlightIds : AddFlights(u, g, f)
  \/ ~Pending /\ \E f \in FlightIds : RemoveFlights(f)
  \/ ~Pending /\ StartGroup(1)
  \/ CreateGroup(1, AnyRank)
  \/ AssignFlights(1)
  \/ ProximityPhase(1)
  \/ ReadGroups(1)
  \/ ReadG1(1)
  \/ ReadG2(1)
  \/ MoveFlights(1)
  \/ RebuildName(1)
  \/ SaveName(1)
  \/ DeleteG2(1)

SpecApi == Init /\ [][NextApi]_vars

\* Two grouping runs of one user, interleaved statement by statement.
\* Each run is started once, run 2 while run 1 is under way.
IngestConc ==
  /\ run[1].pc = "idle"
  /\ run[2].pc = "idle"
  /\ \E k \in ShapeIds : AddFlight(k, MaxConcFlights)

NextConc ==
  \/ IngestConc
  \/ run[1].pc = "idle" /\ StartGroup(1)
  \/ run[2].pc = "idle" /\ ~Startable(1) /\ StartGroup(2)
  \/ \E r \in RunIds : CreateGroup(r, LastRank)
  \/ \E r \in RunIds : AssignFlights(r)
  \/ \E r \in RunIds : ProximityPhase(r)
  \/ \E r \in RunIds : ReadGroups(r)
  \/ \E r \in RunIds : ReadG1(r)
  \/ \E r \in RunIds : ReadG2(r)
  \/ \E r \in RunIds : MoveFlights(r)
  \/ \E r \in RunIds : RebuildName(r)
  \/ \E r \in RunIds : SaveName(r)
  \/ \E r \in RunIds : DeleteG2(r)

SpecConc == Init /\ [][NextConc]_vars

\* Syncs of the account and deliveries to its user, one after the other.
Forward(r) == \E c \in DOMAIN Catalogue : StartData(r, <<AddressOf(TheUser)>>, c)

NextSync ==
  \/ Tick
  \/ BumpRules
  \/ AllIdle /\ StartSync(1)
  \/ Forward(1)
  \/ FetchReturns(1)
  \/ FetchRaises(1)
  \/ NextMessage(1)
  \/ NextRcpt(1)
  \/ CheckLeg(1)
  \/ InsertLeg(1)
  \/ SaveAccount(1)
  \/ CallGrouper(1)
  \/ CreateGroup(1, AnyRank)
  \/ AssignFlights(1)
  \/ ProximityPhase(1)
  \/ ReadGroups(1)
  \/ ReadG1(1)
  \/ ReadG2(1)
  \/ MoveFlights(1)
  \/ RebuildName(1)
  \/ SaveName(1)
  \/ DeleteG2(1)
  \/ AfterGrouping(1)
  \/ Return(1)

SpecSync == Init /\ [][NextSync]_vars

\* One sync of the account and one delivery to its user of a message the
\* mailbox holds too, interleaved statement by statement.
RaceMessage == CHOOSE c \in DOMAIN Catalogue : Catalogue[c].mid = "m1"

NextRace ==
  \/ StartSync(1)
  \/ StartData(2, <<AddressOf(TheUser)>>, RaceMessage)
  \/ \E r \in RunIds : FetchReturns(r)
  \/ \E r \in RunIds : FetchRaises(r)
  \/ \E r \in RunIds : NextMessage(r)
  \/ \E r \in RunIds : NextRcpt(r)
  \/ \E r \in RunIds : CheckLeg(r)
  \/ \E r \in RunIds : InsertLeg(r)
  \/ \E r \in RunIds : SaveAccount(r)
  \/ \E r \in RunIds : CallGrouper(r)
  \/ \E r \in RunIds : CreateGroup(r, LastRank)
  \/ \E r \in RunIds : AssignFlights(r)
  \/ \E r \in RunIds : ProximityPhase(r)
  \/ \E r \in RunIds : ReadGroups(r)
  \/ \E r \in RunIds : ReadG1(r)
  \/ \E r \in RunIds : ReadG2(r)
  \/ \E r \in RunIds : MoveFlights(r)
  \/ \E r \in RunIds : RebuildName(r)
  \/ \E r \in RunIds : SaveName(r)
  \/ \E r \in RunIds : DeleteG2(r)
  \/ \E r \in RunIds : AfterGrouping(r)

SpecRace == Init /\ [][NextRace]_vars

\* The SMTP server alone: RCPT commands, then DATA for the accepted recipients.
InitSmtp ==
  /\ flights = <<>>
  /\ trips = <<>>
  /\ run = [r \in RunIds |-> IdleRun]
  /\ edits = 0
  /\ stable = FALSE
  /\ snap = [r \in RunIds |-> NoSnap]
  /\ goneDeletes = {}
  /\ job = [r \in RunIds |-> IdleJob]
  /\ account = NewAccount
  /\ release = 1
  /\ now = 1
  /\ fed = {}
  /\ scans = [v \in 1..(MaxRelease + 1) |-> 0]
  /\ smtpDomain \in {<<>>, <<"a">>, <<"A">>}
  /\ envelope = <<>>
  /\ lastRcpt = NoRcpt
  /\ deliveries = 0
  /\ loop = IdleLoop
  /\ call = NoCall
  /\ result = NoResult

HandleData(r) == \E c \in DOMAIN Catalogue : StartData(r, envelope, c)

NextSmtp ==
  \/ \E address \in Addresses : HandleRcpt(address)
  \/ ReplySent
  \/ HandleData(1)
  \/ NextRcpt(1)
  \/ CheckLeg(1)
  \/ InsertLeg(1)
  \/ CallGrouper(1)
  \/ CreateGroup(1, AnyRank)
  \/ AssignFlights(1)
  \/ ProximityPhase(1)
  \/ ReadGroups(1)
  \/ ReadG1(1)
  \/ ReadG2(1)
  \/ MoveFlights(1)
  \/ RebuildName(1)
  \/ SaveName(1)
  \/ DeleteG2(1)
  \/ AfterGrouping(1)
  \/ Return(1)

SpecSmtp == InitSmtp /\ [][NextSmtp]_vars

\* ------------------------------------------------------- leg extraction
\* extract_flights_from_email and process_email_for_flights over the
\* itinerary blocks of one message.  A block records what the patterns of a
\* tier find in it: whether a flight number and the airports are there, and
\* for each date and time whether the text is absent ("none"), does not
\* parse ("bad") or parses ("ok"); for LATAM also the number of
\* date+time+airport groups of the section and whether it has a connection.
GoodBlock ==
  [fn |-> TRUE, dep |-> TRUE, arr |-> TRUE, ddate |-> "ok", dtime |-> "ok",
   adate |-> "ok", atime |-> "ok", segs |-> 2, conn |-> FALSE]
LatamBlocks ==
  [fn : BOOLEAN, dep : {TRUE}, arr : {TRUE}, ddate : {"ok", "bad"},
   dtime : {"ok", "bad"}, adate : {"ok", "bad"}, atime : {"ok", "bad"},
   segs : 0..2, conn : BOOLEAN]
GenericBlocks ==
  [fn : BOOLEAN, dep : BOOLEAN, arr : BOOLEAN, ddate : {"ok", "bad", "none"},
   dtime : {"ok", "bad", "none"}, adate : {"ok", "bad", "none"},
   atime : {"ok", "bad", "none"}, segs : {2}, conn : {FALSE}]

\* Messages of up to MaxBlocks blocks, one of them any block of the tier and
\* the others complete; block k of a round trip flies X -> Y or back.
BlockLists(S) ==
  UNION {{[k \in 1..n |-> IF k = i THEN p ELSE GoodBlock] : i \in 1..n} :
           <<p, n>> \in S \X (1..MaxBlocks)}
ExtractCalls ==
  [fn : {"extract"}, html : {"none", "ok", "raises"}, extractor : {"latam"},
   blocks : BlockLists(LatamBlocks)]
  \cup
  [fn : {"extract"}, html : {"none", "ok", "raises"}, extractor : {"sas", ""},
   blocks : BlockLists(GenericBlocks)]

DepPort(k) == IF k % 2 = 1 THEN "X" ELSE "Y"
ArrPort(k) == IF k % 2 = 1 THEN "Y" ELSE "X"

\* A flight dict, and the empty dict {}.
Leg(k, fn, dep, arr, dep_dt, arr_dt) ==
  [blk |-> k, keys |-> TRUE, fn |-> fn, dep |-> dep, arr |-> arr,
   dep_dt |-> dep_dt, arr_dt |-> arr_dt]
EmptyDict(k) ==
  [blk |-> k, keys |-> FALSE, fn |-> FALSE, dep |-> "", arr |-> "",
   dep_dt |-> FALSE, arr_dt |-> FALSE]
Yield(legs) == [raised |-> FALSE, legs |-> legs]
Raises == [raised |-> TRUE, legs |-> <<>>]

\* bs4_extractors._make_flight_dict: None unless all five are there.
MakeFlightDict(k, fn, dep, arr, dep_dt, arr_dt) ==
  IF fn /\ dep # "" /\ arr # "" /\ dep_dt /\ arr_dt
  THEN <<Leg(k, fn, dep, arr, dep_dt, arr_dt)>>
  ELSE <<>>

\* _extract_latam_bs4, one section.
LatamBs4Section(k, b) ==
  IF b.segs < 2 \/ ~(b.fn \/ b.conn) THEN <<>>
  ELSE IF b.conn
  THEN IF b.ddate # "ok" \/ b.adate # "ok" \/ b.dtime # "ok" \/ b.atime # "ok"
       THEN <<>>
       ELSE MakeFlightDict(k, TRUE, DepPort(k), "C", TRUE, TRUE)
            \o MakeFlightDict(k, TRUE, "C", ArrPort(k), TRUE, TRUE)
  ELSE IF b.ddate # "ok" \/ b.adate # "ok" THEN <<>>
  ELSE MakeFlightDict(k, b.fn, DepPort(k), ArrPort(k), b.dtime = "ok", b.atime = "ok")

\* _extract_sas_bs4, one date block; the arrival is on the departure date.
SasBs4Block(k, b) ==
  IF b.ddate # "ok" THEN <<>>
  ELSE IF ~(b.dep /\ b.arr) \/ b.dtime = "none" \/ b.atime = "none" \/ ~b.fn THEN <<>>
  ELSE MakeFlightDict(k, TRUE, DepPort(k), ArrPort(k), b.dtime = "ok", b.atime = "ok")

RECURSIVE Bs4Legs(_, _, _)
Bs4Legs(extractor, blocks, k) ==
  IF k > Len(blocks) THEN <<>>
  ELSE (IF extractor = "latam" THEN LatamBs4Section(k, blocks[k])
        ELSE SasBs4Block(k, blocks[k]))
       \o Bs4Legs(extractor, blocks, k + 1)

\* extract_with_bs4: [] without an extractor for the rule, and when it raises.
ExtractWithBs4(msg) ==
  IF msg.extractor \notin {"latam", "sas"} \/ msg.html = "raises" THEN <<>>
  ELSE Bs4Legs(msg.extractor, msg.blocks, 1)

\* _make_latam_flight: {} when the departure date does not parse; the times
\* go to datetime(...) unguarded.
MakeLatamFlight(k, ddate, dtime, adate, atime) ==
  IF ddate # "ok" THEN Yield(<<EmptyDict(k)>>)
  ELSE IF dtime # "ok" \/ atime # "ok" THEN Raises
  ELSE Yield(<<Leg(k, TRUE, DepPort(k), ArrPort(k), TRUE, TRUE)>>)

\* _extract_latam_flights, one section.
LatamSection(k, b) ==
  IF b.segs = 0 THEN Yield(<<>>)
  ELSE IF b.segs = 1
  THEN IF b.fn THEN MakeLatamFlight(k, b.ddate, b.dtime, b.ddate, b.dtime)
       ELSE Yield(<<>>)
  ELSE IF b.conn
  THEN IF b.ddate # "ok" \/ b.adate # "ok" THEN Yield(<<>>)
       ELSE IF b.dtime # "ok" \/ b.atime # "ok" THEN Raises
       ELSE Yield((IF b.fn THEN <<Leg(k, TRUE, DepPort(k), "C", TRUE, TRUE)>> ELSE <<>>)
                  \o <<Leg(k, TRUE, "C", ArrPort(k), TRUE, TRUE)>>)
  ELSE IF b.fn THEN MakeLatamFlight(k, b.ddate, b.dtime, b.adate, b.atime)
  ELSE Yield(<<>>)

\* extract_flights_from_email, one match of the rule's body_pattern.
GenericMatch(k, b) ==
  IF b.ddate # "ok" \/ b.dtime # "ok" THEN Yield(<<>>)
  ELSE IF b.atime # "ok" THEN Yield(<<>>)
  ELSE IF b.fn /\ b.dep /\ b.arr
  THEN Yield(<<Leg(k, TRUE, DepPort(k), ArrPort(k), TRUE, TRUE)>>)
  ELSE Yield(<<>>)

RECURSIVE RegexLegs_firstOnly(_, _, _, _)
RegexLegs_firstOnly(extractor, blocks, k, acc) ==
  IF k > Len(blocks) \/ k > 1 THEN Yield(acc)
  ELSE LET one == IF extractor = "latam" THEN LatamSection(k, blocks[k])
                  ELSE GenericMatch(k, blocks[k])
       IN IF one.raised THEN Raises
          ELSE RegexLegs_firstOnly(extractor, blocks, k + 1, acc \o one.legs)

RECURSIVE RegexLegs(_, _, _, _)
RegexLegs(extractor, blocks, k, acc) ==
  IF k > Len(blocks) THEN Yield(acc)
  ELSE LET one == IF extractor = "latam" THEN LatamSection(k, blocks[k])
                  ELSE GenericMatch(k, blocks[k])
       IN IF one.raised THEN Raises
          ELSE RegexLegs(extractor, blocks, k + 1, acc \o one.legs)

\* extract_flights_from_email: the structured tier, then the regex tier.
ExtractFlightsFromEmail_regexFirst(msg) ==
  LET regex == RegexLegs(msg.extractor, msg.blocks, 1, <<>>)
  IN IF regex.raised \/ regex.legs # <<>> \/ msg.html = "none" THEN regex
     ELSE Yield(ExtractWithBs4(msg))
ExtractFlightsFromEmail(msg) ==
  LET bs4_result == IF msg.html = "none" THEN <<>> ELSE ExtractWithBs4(msg)
  IN IF bs4_result # <<>> THEN Yield(bs4_result)
     ELSE RegexLegs(msg.extractor, msg.blocks, 1, <<>>)

\* process_email_for_flights: flight_data['flight_number'] is read before
\* the try, the legs are created in order.
RECURSIVE StoreLegs(_, _, _)
StoreLegs(legs, k, stored) ==
  IF k > Len(legs) THEN [raised |-> FALSE, stored |-> stored]
  ELSE IF ~legs[k].keys THEN [raised |-> TRUE, stored |-> stored]
  ELSE StoreLegs(legs, k + 1, Append(stored, legs[k]))

ExtractFlights ==
  /\ call.fn = "extract"
  /\ result.fn = "none"
  /\ LET r == ExtractFlightsFromEmail(call)
     IN result' = [fn |-> "extract", raised |-> r.raised, legs |-> r.legs, stored |-> <<>>]
  /\ UNCHANGED <<groupVars, pipeVars, smtpVars, loop, call>>

ProcessEmail ==
  /\ call.fn = "extract"
  /\ result.fn = "extract"
  /\ LET s == IF result.raised THEN [raised |-> TRUE, stored |-> <<>>]
              ELSE StoreLegs(result.legs, 1, <<>>)
     IN result' = [result EXCEPT !.fn = "process", !.raised = s.raised, !.stored = s.stored]
  /\ UNCHANGED <<groupVars, pipeVars, smtpVars, loop, call>>

\* ---------------------------------------------------------- rule matching
\* A rule as match_rule_to_email sees it for one message: its priority, its
\* airline name (a number standing for its alphabetical rank), and for each
\* pattern whether re.search finds it ("match"), does not ("miss") or
\* raises re.error ("invalid"); subject "none" is a rule without subject
\* pattern.
Rules ==
  [priority : {1, 2}, airline_name : {1, 2},
   sender : {"match", "miss", "invalid"},
   subject : {"none", "match", "miss", "invalid"}]
NoRule == [priority |-> 0, airline_name |-> 0, sender |-> "", subject |-> ""]
MatchCalls == [fn : {"match"}, rules : UNION {[1..n -> Rules] : n \in 0..MaxRules}]

\* sorted(..., key=lambda r: (-r.priority, r.airline_name)): a stable sort,
\* here by insertion from the left.
KeyBefore(a, b) ==
  \/ a.priority > b.priority
  \/ a.priority = b.priority /\ a.airline_name < b.airline_name
GetRulesForUser_unsorted(rules) == rules

RECURSIVE GetRulesForUser(_)
GetRulesForUser(rules) ==
  IF rules = <<>> THEN <<>>
  ELSE LET r == rules[Len(rules)]
           front == GetRulesForUser(SubSeq(rules, 1, Len(rules) - 1))
           n == Cardinality({i \in DOMAIN front : ~KeyBefore(r, front[i])})
       IN SubSeq(front, 1, n) \o <<r>> \o SubSeq(front, n + 1, Len(front))

\* One pass of the loop body of match_rule_to_email.
RuleVerdict(rule) ==
  IF rule.sender = "invalid" THEN "continue"
  ELSE IF rule.sender = "miss" THEN "continue"
  ELSE IF rule.subject = "none" THEN "return"
  ELSE IF rule.subject = "invalid" THEN "continue"
  ELSE IF rule.subject = "miss" THEN "continue"
  ELSE "return"

RECURSIVE MatchRuleToEmail(_, _)
MatchRuleToEmail(rules, k) ==
  IF k > Len(rules) THEN NoRule
  ELSE IF RuleVerdict(rules[k]) = "return" THEN rules[k]
  ELSE MatchRuleToEmail(rules, k + 1)

\* process_email_for_flights up to the return for a message no rule matches.
MatchRule ==
  /\ call.fn = "match"
  /\ result.fn = "none"
  /\ LET rule == MatchRuleToEmail(GetRulesForUser(call.rules), 1)
     IN result' = [fn |-> "match", rule |-> rule, raised |-> FALSE,
                   extracting |-> rule # NoRule, stored |-> <<>>]
  /\ UNCHANGED <<groupVars, pipeVars, smtpVars, loop, call>>

\* ------------------------------------------------------- trip destination
\* A trip's flights in departure order: the airports of each flight and the
\* hours between its arrival and the next flight's departure.
TripFlights ==
  {f \in [departure_airport : {"A", "B", "C"}, arrival_airport : {"A", "B", "C"},
          gap : {CONNECTION_THRESHOLD - 1, CONNECTION_THRESHOLD}] :
     f.departure_airport # f.arrival_airport}
DestinationCalls ==
  [fn : {"destination"}, flights : UNION {[1..n -> TripFlights] : n \in 1..MaxLegs}]

\* The loop of _find_trip_destination from index i (1-based); 0 when it ends
\* without returning.
RECURSIVE FirstStay(_, _, _)
FirstStay(fs, origin, i) ==
  IF i > Len(fs) - 1 THEN 0
  ELSE IF fs[i].gap >= CONNECTION_THRESHOLD /\ fs[i].arrival_airport # origin THEN i
  ELSE FirstStay(fs, origin, i + 1)

FindTripDestination_midpoint(fs, origin) ==
  fs[((Len(fs) - 1) \div 2) + 1].arrival_airport

FindTripDestination(fs, origin) ==
  IF fs = <<>> THEN origin
  ELSE IF fs[Len(fs)].arrival_airport # origin THEN fs[Len(fs)].arrival_airport
  ELSE IF FirstStay(fs, origin, 1) # 0 THEN fs[FirstStay(fs, origin, 1)].arrival_airport
  ELSE LET mid == (Len(fs) - 1) \div 2
           arr == fs[mid + 1].arrival_airport
       IN IF arr # origin THEN arr ELSE fs[1].arrival_airport

\* FlightGroup.destination
Destination ==
  /\ call.fn = "destination"
  /\ result.fn = "none"
  /\ result' = [fn |-> "destination",
                airport |-> IF call.flights = <<>> THEN ""
                            ELSE FindTripDestination(call.flights, call.flights[1].departure_airport)]
  /\ UNCHANGED <<groupVars, pipeVars, smtpVars, loop, call>>

\* ----------------------------------------------------- year-less dates
\* Dates are <<year, month, day>>; NoDate is None.
NoDate == <<0, 0, 0>>
DaysIn(y, m) ==
  IF m = 2 THEN (IF y % 4 = 0 /\ (y % 100 # 0 \/ y % 400 = 0) THEN 29 ELSE 28)
  ELSE IF m \in {4, 6, 9, 11} THEN 30 ELSE 31
\* date(y, m, d) does not raise ValueError
IsDate(dt) == dt[2] \in 1..12 /\ dt[3] \in 1..DaysIn(dt[1], dt[2])
DateBefore(a, b) ==
  \/ a[1] < b[1]
  \/ a[1] = b[1] /\ a[2] < b[2]
  \/ a[1] = b[1] /\ a[2] = b[2] /\ a[3] < b[3]

\* A message received on a day of the months around the turn of the year of
\* a common and of a leap year, and a DD/MM text that is a day of some year.
DateCalls ==
  [fn : {"date"},
   email_date : {dt \in {2027, 2028} \X {1, 2, 3, 12} \X (1..31) : IsDate(dt)},
   ddmm : {dm \in (1..31) \X {1, 2, 3, 12} : dm[1] <= DaysIn(2028, dm[2])}]

\* bs4_extractors._parse_ddmm_date
ParseDdmmDate(day, month, ref_year, email_date) ==
  IF ~IsDate(<<ref_year, month, day>>) THEN NoDate
  ELSE IF DateBefore(<<ref_year, month, day>>, email_date)
  THEN IF IsDate(<<ref_year + 1, month, day>>) THEN <<ref_year + 1, month, day>> ELSE NoDate
  ELSE <<ref_year, month, day>>

\* extract_flights_from_email: strptime(text, '%d/%m') gives the date in 1900,
\* then the year is replaced.
RegexDdmmDate(day, month, ref_year, email_date) ==
  IF ~IsDate(<<STRPTIME_YEAR, month, day>>) THEN NoDate
  ELSE IF DateBefore(<<ref_year, month, day>>, email_date) THEN <<ref_year + 1, month, day>>
  ELSE <<ref_year, month, day>>

ResolveDate ==
  /\ call.fn = "date"
  /\ result.fn = "none"
  /\ result' = [fn |-> "date",
                bs4 |-> ParseDdmmDate(call.ddmm[1], call.ddmm[2], call.email_date[1], call.email_date),
                regex |-> RegexDdmmDate(call.ddmm[1], call.ddmm[2], call.email_date[1], call.email_date)]
  /\ UNCHANGED <<groupVars, pipeVars, smtpVars, loop, call>>

\* ------------------------------------------------ connection interpolation
\* datetime and timedelta count microseconds.
MicrosPerMinute == 60000000
MaxConns == 6
MaxElapsed == 8

\* A LATAM section with connections as _extract_latam_flights and
\* _extract_latam_bs4 see it: whether the first flight number is found, the
\* minutes from the departure to the arrival of the section (the departure is
\* instant 0), and the layover in minutes of each "Troca de aviao".
InterpolateCalls ==
  [fn : {"interpolate"}, first : BOOLEAN, elapsed : (0 - 1)..MaxElapsed,
   layovers : UNION {[1..k -> {0, 1}] : k \in 1..MaxConns}]

\* timedelta(seconds=total_flight / n_segments): the quotient to the nearest
\* microsecond, a tie to the even one.
RoundHalfEven(a, n) ==
  LET q == a \div n
      r == a % n
  IN IF 2 * r < n THEN q
     ELSE IF 2 * r > n THEN q + 1
     ELSE IF q % 2 = 0 THEN q ELSE q + 1

\* sum(s['layover_after_minutes'] for the first i segments)
RECURSIVE LayoverBefore(_, _)
LayoverBefore(layovers, i) ==
  IF i = 0 THEN 0 ELSE layovers[i] + LayoverBefore(layovers, i - 1)

\* The legs of the section: stop 0 is the origin, stop i the i-th connection
\* airport, the last stop the destination; a segment without flight number
\* is left out.
ConnectionLegs(c) ==
  LET n == Len(c.layovers) + 1
      total_flight == (c.elapsed - LayoverBefore(c.layovers, n - 1)) * MicrosPerMinute
      flight_per_segment == RoundHalfEven(total_flight, n)
      seg_dep_dt(i) == (i - 1) * flight_per_segment
                       + LayoverBefore(c.layovers, i - 1) * MicrosPerMinute
      segment(i) == [from |-> i - 1, to |-> i, fn |-> i > 1 \/ c.first,
                     dep |-> seg_dep_dt(i), arr |-> seg_dep_dt(i) + flight_per_segment]
  IN IF total_flight <= 0 THEN <<>>
     ELSE SelectSeq([i \in 1..n |-> segment(i)], LAMBDA s : s.fn)

Interpolate ==
  /\ call.fn = "interpolate"
  /\ result.fn = "none"
  /\ result' = [fn |-> "interpolate", legs |-> ConnectionLegs(call)]
  /\ UNCHANGED <<groupVars, pipeVars, smtpVars, loop, call>>

InitCalls ==
  /\ flights = <<>>
  /\ trips = <<>>
  /\ run = [r \in RunIds |-> IdleRun]
  /\ edits = 0
  /\ stable = FALSE
  /\ snap = [r \in RunIds |-> NoSnap]
  /\ goneDeletes = {}
  /\ job = [r \in RunIds |-> IdleJob]
  /\ account = NewAccount
  /\ release = 1
  /\ now = 1
  /\ fed = {}
  /\ scans = [v \in 1..(MaxRelease + 1) |-> 0]
  /\ smtpDomain = <<"a">>
  /\ envelope = <<>>
  /\ lastRcpt = NoRcpt
  /\ deliveries = 0
  /\ loop = IdleLoop
  /\ call \in ExtractCalls \cup MatchCalls \cup DestinationCalls \cup DateCalls
             \cup InterpolateCalls
  /\ result = NoResult

NextCalls ==
  \/ ExtractFlights
  \/ ProcessEmail
  \/ MatchRule
  \/ Destination
  \/ ResolveDate
  \/ Interpolate

SpecCalls == InitCalls /\ [][NextCalls]_vars

\* ------------------------------------------------------------ properties
Adjacent(s) == {k \in DOMAIN s : k + 1 \in DOMAIN s}
SameCluster(clusters, f, g) == \E c \in DOMAIN clusters : {f, g} \subseteq Range(clusters[c])
Gap(s, k) == Dep(s[k + 1]) - Arr(s[k])

\* C6: in the proximity phase the ungrouped flights are taken in departure
\* order, and a flight is in the cluster of the flight just before it exactly
\* when its departure minus that flight's arrival is at most 48 hours.
C6_ProximityThreshold ==
  run[1].phase = 2 =>
    /\ \A k \in Adjacent(run[1].remaining) :
          Dep(run[1].remaining[k]) <= Dep(run[1].remaining[k + 1])
    /\ \A k \in Adjacent(run[1].remaining) :
          SameCluster(run[1].clusters, run[1].remaining[k], run[1].remaining[k + 1])
            <=> Gap(run[1].remaining, k) <= 48 * 60

\* A run whose proximity phase saw a gap of exactly 48 h (same cluster) and a
\* gap of 48 h and one minute (new cluster).
C6_Witness ==
  /\ run[1].phase = 2
  /\ \E k \in Adjacent(run[1].remaining) :
        /\ Gap(run[1].remaining, k) = 48 * 60
        /\ SameCluster(run[1].clusters, run[1].remaining[k], run[1].remaining[k + 1])
  /\ \E k \in Adjacent(run[1].remaining) :
        /\ Gap(run[1].remaining, k) = 48 * 60 + 1
        /\ ~SameCluster(run[1].clusters, run[1].remaining[k], run[1].remaining[k + 1])

\* C4: a run of auto_group_flights that begins when nothing was written since
\* the previous run returned writes nothing: it creates no trip, merges and
\* deletes none, and the two tables (names and assignments included) stay as
\* the run found them.
C4_SecondRunIsNoOp ==
  run[1].second =>
    /\ Tables = snap[1].begin
    /\ run[1].created = 0
    /\ run[1].merged = 0

\* A second run that returned, over two trips or more and an ungrouped flight.
C4_Witness ==
  /\ run[1].second
  /\ run[1].pc = "done"
  /\ Cardinality(DOMAIN trips) >= 2
  /\ \E f \in FlightIds : flights[f].group = NoGroup

\* The trips and their flights as run 1 found them on entering the merge phase.
EntryTrips == {g \in DOMAIN snap[1].merge[2] : snap[1].merge[2][g].auto}
EntryFlights(g) ==
  OrderByDeparture({f \in DOMAIN snap[1].merge[1] : snap[1].merge[1][f].group = g})
Chain(A, B, C) ==
  /\ EntryFlights(A) # <<>> /\ EntryFlights(B) # <<>> /\ EntryFlights(C) # <<>>
  /\ Overlap(EntryFlights(A), EntryFlights(B), MaxGapMinutes)
  /\ Overlap(EntryFlights(B), EntryFlights(C), MaxGapMinutes)
  /\ ~Overlap(EntryFlights(A), EntryFlights(C), MaxGapMinutes)

\* C5: when the merge phase is entered with trips A, B, C such that A and B
\* satisfy the merge condition, B and C satisfy it and A and C do not, then
\* when the run returns all their flights are in one trip and two trips
\* fewer exist.
C5_MergeTransitive ==
  run[1].pc = "done" =>
    \A A \in EntryTrips, B \in EntryTrips, C \in EntryTrips :
      Chain(A, B, C) =>
        /\ \E g \in DOMAIN trips :
              \A f \in Range(EntryFlights(A) \o EntryFlights(B) \o EntryFlights(C)) :
                flights[f].group = g
        /\ Cardinality(DOMAIN trips) <= Cardinality(DOMAIN snap[1].merge[2]) - 2

\* The flights a user has for a message and a flight number.
FlightsFor(u, c, fn) ==
  {f \in FlightIds : flights[f].user = u /\ flights[f].key = Catalogue[c].mid \o ":" \o fn}
FlightNumbers == {Shapes[k].fn : k \in ShapeIds}
OnePerKey ==
  \A u \in Users, c \in DOMAIN Catalogue, fn \in FlightNumbers :
    Cardinality(FlightsFor(u, c, fn)) <= 1

\* C1: with pipeline runs one after the other, a user never has two flights
\* for the same message and flight number, the insert is only reached for a
\* leg the user has no flight for, and a message fed again creates no flight.
C1_NoDuplicateFlight ==
  /\ OnePerKey
  /\ job[1].pc = "insert" =>
       FlightsFor(job[1].user, job[1].cur, Shapes[Head(job[1].legs)].fn) = {}
  /\ job[1].refeed => job[1].msgCreated = 0

\* A message with two legs, fed a second time, went through both legs.
C1_Witness ==
  /\ job[1].refeed
  /\ job[1].pc = "check"
  /\ job[1].legs = <<>>
  /\ job[1].seen = 2
  /\ Cardinality({f \in FlightIds : flights[f].user = job[1].user}) >= 2

\* The legs of the message a run last processed were all gone through.
WentThroughAllLegs(j) == j.seen = Len(Catalogue[j.cur].legs)

\* C3: with a sync and a delivery of the same message interleaved, a user
\* never has two flights for the same message and flight number; an insert
\* refused as a duplicate adds nothing to the errors of the sync summary and
\* fails no recipient, and the legs after it are still gone through.
C3_LosingInsertIsNoError ==
  /\ OnePerKey
  /\ \A r \in RunIds :
       /\ job[r].kind = "sync" /\ job[r].pc \in {"msg", "check", "insert", "save"}
            => job[r].errors = <<>>
       /\ job[r].kind = "sync" /\ job[r].pc \in {"msg", "save"} /\ job[r].cur # 0
            /\ job[r].visited[Len(job[r].visited)] = job[r].cur
            => WentThroughAllLegs(job[r])
       /\ job[r].kind = "deliver" /\ job[r].pc \in {"group", "grouping", "ret"}
            => WentThroughAllLegs(job[r])
       /\ job[r].kind = "deliver" /\ job[r].pc = "group" => job[r].failed = 0

\* A run lost an insert to the other run and then created the next leg.
C3_Witness ==
  \E r \in RunIds :
    /\ job[r].lost > 0
    /\ job[r].msgCreated > 0
    /\ job[r].legs = <<>>
    /\ job[r].seen = 2

\* C7: once the fetch of a sync has returned, the sync goes through every
\* fetched message, and when it is past the save the account carries the
\* current day and the current rule-set version, whatever raised on the way.
C7_SyncAlwaysRecorded ==
  job[1].kind = "sync" /\ job[1].fetched =>
    /\ job[1].pc # "ret" \/ job[1].visited = job[1].msgs
    /\ job[1].pc \in {"group", "grouping", "ret"} =>
         /\ account.last_synced_at = now
         /\ account.last_rules_version = ToString(release)

\* A sync that returns with an error in its summary and with the four flights
\* of the mailbox created, two of them by a message behind the one that raised.
C7_Witness ==
  /\ job[1].kind = "sync"
  /\ job[1].pc = "ret"
  /\ job[1].errors = <<"error">>
  /\ job[1].created = 4
  /\ account.last_synced_at = now

\* C8: a sync fetches everything exactly when the version recorded on the
\* account differs from the current one and else fetches since the last sync;
\* past the save the recorded version is the current one; no release sees two
\* syncs that fetched everything and saved.
C8_RescanOnVersionChange ==
  /\ job[1].kind = "sync" /\ job[1].pc \in {"fetch", "msg", "check", "insert", "save"} =>
       job[1].since = IF account.last_rules_version # ToString(release)
                      THEN Never ELSE account.last_synced_at
  /\ account.last_rules_version = ToString(release) => account.last_synced_at # Never
  /\ job[1].kind = "sync" /\ job[1].fetched /\ job[1].pc \in {"group", "grouping", "ret"} =>
       account.last_rules_version = ToString(release)
  /\ \A v \in DOMAIN scans : scans[v] <= 1

\* After a change of release and the full rescan it caused, an incremental sync.
C8_Witness ==
  /\ release = 2
  /\ scans[1] = 1
  /\ scans[2] = 1
  /\ job[1].kind = "sync"
  /\ job[1].fetched
  /\ job[1].since # Never

\* The acceptance condition of a recipient address.
Accepted(address) ==
  /\ smtpDomain # <<>>
  /\ \E p \in DOMAIN address :
       /\ address[p] = "@"
       /\ \A q \in (p + 1)..Len(address) : address[q] # "@"
       /\ LowerSeq(SubSeq(address, p + 1, Len(address))) = LowerSeq(smtpDomain)
       /\ Join(SubSeq(address, 1, p - 1)) \in Users
Rejections ==
  {"550 Service not configured", "550 Invalid address", "550 Unknown domain",
   "550 Unknown user"}

C2_Serialized ==
  /\ Startable(1) \/ Startable(2)
  /\ goneDeletes = {}

\* The accounts synced in the cycle that just ended, in order.
SyncedIn(done) == [k \in DOMAIN done |-> done[k][1]]

\* C12: a cycle that ends has synced every active account once, in order,
\* whatever the outcome of each sync; and after the cycle the loop runs the
\* next one unless a stop is requested.
C12_EveryAccountEveryCycle ==
  /\ [](loop.pc = "wait" => SyncedIn(loop.done) = InOrder(loop.active))
  /\ (loop.pc = "sync" /\ loop.todo # <<>>) ~>
        (loop.pc \in {"wait", "hung"} \/ loop.stop)
  /\ (loop.pc = "wait") ~> (loop.pc = "run" \/ loop.stop)

\* The second cycle in a row that ended after the sync of the first account
\* raised and the sync of the second reported errors.
C12_Witness ==
  /\ loop.pc = "wait"
  /\ loop.done = << <<1, "raised">>, <<2, "errors">>, <<3, "ok">> >>
  /\ Len(loop.prev) = 3
  /\ loop.prev[1][2] = "raised"

\* C11: a connection that hangs ends within a bounded time: the cycle goes on
\* to its end (or a stop is requested).
C11_HangIsBounded ==
  (loop.pc = "hung") ~> (loop.pc = "wait" \/ loop.stop)

\* A leg with its five required fields.
Complete(l) == l.keys /\ l.fn /\ l.dep # "" /\ l.arr # "" /\ l.dep_dt /\ l.arr_dt
Parses(b) ==
  /\ b.fn /\ b.dep /\ b.arr /\ b.segs = 2
  /\ b.ddate = "ok" /\ b.dtime = "ok" /\ b.adate = "ok" /\ b.atime = "ok"

\* C13: every leg extract_flights_from_email returns and every leg the
\* pipeline stores has a flight number, both airports and both instants.
C13_OnlyCompleteLegs ==
  call.fn = "extract" /\ result.fn \in {"extract", "process"} =>
    /\ \A k \in DOMAIN result.legs : Complete(result.legs[k])
    /\ \A k \in DOMAIN result.stored : Complete(result.stored[k])

\* C19: a block that does not parse is skipped: processing the message does
\* not raise and the legs of the blocks that parse are stored.
C19_BadBlockIsSkipped ==
  call.fn = "extract" /\ result.fn = "process" =>
    /\ ~result.raised
    /\ \A k \in DOMAIN call.blocks :
         Parses(call.blocks[k]) =>
           \E n \in DOMAIN result.stored : result.stored[n].blk = k

\* A valid round trip of two legs: both blocks parse and are direct flights,
\* X -> Y and Y -> X.
RoundTrip(blocks) ==
  Len(blocks) = 2 /\ \A k \in DOMAIN blocks : Parses(blocks[k]) /\ ~blocks[k].conn

Qualifies(r) == r.sender = "match" /\ r.subject \in {"none", "match"}

\* C14: match_rule_to_email over the ranked rules returns a qualifying rule
\* that no qualifying rule precedes in (priority descending, airline name
\* ascending) order, the first of them in the list among equals; it returns
\* no rule exactly when none qualifies, and then the message gives no
\* flight and no error.
C14_FirstQualifyingRule ==
  call.fn = "match" /\ result.fn = "match" =>
    LET Q == {i \in DOMAIN call.rules : Qualifies(call.rules[i])}
    IN /\ ~result.raised
       /\ Q = {} => result.rule = NoRule /\ ~result.extracting /\ result.stored = <<>>
       /\ Q # {} =>
            \E i \in Q :
              /\ result.rule = call.rules[i]
              /\ \A j \in Q : ~KeyBefore(call.rules[j], call.rules[i])
              /\ \A j \in Q : j < i => KeyBefore(call.rules[i], call.rules[j])

C14_Witness ==
  /\ call.fn = "match" /\ result.fn = "match"
  /\ Len(call.rules) = 2
  /\ call.rules[1].priority = 1 /\ Qualifies(call.rules[1])
  /\ call.rules[2].priority = 2 /\ call.rules[2].sender = "invalid"
  /\ result.rule = call.rules[1]

\* The flights of the trip that are followed by a gap of 24 hours or more.
LongGaps(fs) == {i \in 1..(Len(fs) - 1) : fs[i].gap >= CONNECTION_THRESHOLD}
Least(S) == CHOOSE i \in S : \A j \in S : i <= j
MidFlight(fs) == fs[((Len(fs) - 1) \div 2) + 1]

Expected(ddmm, email_date) ==
  IF DateBefore(<<email_date[1], ddmm[2], ddmm[1]>>, email_date)
  THEN <<email_date[1] + 1, ddmm[2], ddmm[1]>>
  ELSE <<email_date[1], ddmm[2], ddmm[1]>>

\* C17: a day/month without year resolves, in the structured tier and in the
\* regex tier alike, to that day in the year of receipt or in the following
\* year when it would fall before the day of receipt; the result is not
\* before the day of receipt and less than a year after it.
C17_YearInference ==
  call.fn = "date" /\ result.fn = "date" /\ IsDate(Expected(call.ddmm, call.email_date)) =>
    LET e == Expected(call.ddmm, call.email_date)
    IN /\ result.bs4 = e
       /\ result.regex = e
       /\ ~DateBefore(e, call.email_date)
       /\ DateBefore(e, <<call.email_date[1] + 1, call.email_date[2], call.email_date[3]>>)

\* FlightGroup.start_date and end_date: the earliest departure and the
\* latest arrival of the trip's flights.
StartDate(g) == Dep(CHOOSE f \in Range(FlightsOf(g)) : \A x \in Range(FlightsOf(g)) : Dep(f) <= Dep(x))
EndDate(g) == Arr(CHOOSE f \in Range(FlightsOf(g)) : \A x \in Range(FlightsOf(g)) : Arr(f) >= Arr(x))

\* C18: when the merge phase has returned, no two auto-generated trips of
\* the user that have flights satisfy the merge condition on their start
\* and end dates.
C18_NoMergeablePairLeft ==
  run[1].pc = "done" =>
    \A g1 \in Range(AutoGroups(TheUser)), g2 \in Range(AutoGroups(TheUser)) :
      g1 # g2 /\ FlightsOf(g1) # <<>> /\ FlightsOf(g2) # <<>> =>
        ~(/\ StartDate(g1) <= EndDate(g2) + MaxGapMinutes
          /\ StartDate(g2) <= EndDate(g1) + MaxGapMinutes)

\* A run is at rest when it has not started or has returned or raised.
AtRest(r) == run[r].pc \in {"idle", "done", "error"}

\* C20: whatever the interleaving of two grouping runs of one user, neither
\* run ends with an exception, and once both are at rest no auto-generated
\* trip is left without flights (as no sequence of two runs leaves one).
C20_InterleavingIsHarmless ==
  /\ \A r \in RunIds : run[r].pc # "error"
  /\ (\A r \in RunIds : AtRest(r)) =>
       \A g \in DOMAIN trips : trips[g].auto => FlightsOf(g) # <<>>

\* C21: the errors list of a sync summary has entries only for failures of
\* the connection to the account's mailbox: once the fetch has returned,
\* nothing is added to it.
C21_OnlyConnectivityErrors ==
  \A r \in RunIds :
    job[r].kind = "sync" /\ job[r].fetched => job[r].errors = <<>>

\* FlightGroup.destination of a trip of the table: its flights in departure
\* order, each with the whole hours (of 60 minutes) until the next one departs.
TripDestination(g) ==
  LET fl == FlightsOf(g)
      fs == [i \in DOMAIN fl |->
               [departure_airport |-> From(fl[i]), arrival_airport |-> To(fl[i]),
                gap |-> IF i < Len(fl) THEN (Dep(fl[i + 1]) - Arr(fl[i])) \div 60
                        ELSE 0]]
  IN IF fl = <<>> THEN "" ELSE FindTripDestination(fs, fs[1].departure_airport)

\* C22: with no manual regrouping, once a run has returned, the destination
\* in the name of every auto-generated trip, given at its creation or by
\* the merge that renamed it, is the trip's destination property.
C22_NameFollowsDestinationRule ==
  edits = 0 /\ run[1].pc = "done" =>
    \A g \in DOMAIN trips :
      trips[g].auto /\ FlightsOf(g) # <<>> => trips[g].name.dest = TripDestination(g)

\* C23: with no manual regrouping, once a run has returned, the user's
\* flights that are in auto-generated trips and carry the same non-empty
\* booking reference are in one trip.
C23_OneTripPerBooking ==
  edits = 0 /\ run[1].pc = "done" =>
    \A f \in FlightIds, h \in FlightIds :
      /\ Ref(f) # "" /\ Ref(f) = Ref(h)
      /\ flights[f].group \in DOMAIN trips /\ trips[flights[f].group].auto
      /\ flights[h].group \in DOMAIN trips /\ trips[flights[h].group].auto
      => flights[f].group = flights[h].group

\* The three writes of one merge of trip B = G2 into trip A = G1 by run 1.
MergeMoves ==
  run[1].pc = "m_move" =>
    /\ run'[1].pc = "m_reread"
    /\ trips' = trips
    /\ DOMAIN flights' = DOMAIN flights
    /\ \A f \in FlightIds :
         flights'[f] = IF flights[f].group = G2(1)
                       THEN [flights[f] EXCEPT !.group = G1(1)]
                       ELSE flights[f]
MergeRenames ==
  run[1].pc = "m_save" =>
    /\ flights' = flights
    /\ DOMAIN trips' = DOMAIN trips
    /\ \A g \in DOMAIN trips : g # G1(1) => trips'[g] = trips[g]
    /\ trips'[G1(1)].name.refs = {Ref(f) : f \in {x \in FlightIds : flights[x].group = G1(1)}} \ {""}
    /\ trips'[G1(1)].name.origin = From(FlightsOf(G1(1))[1])
MergeDeletes ==
  run[1].pc = "m_delete" =>
    /\ \A f \in FlightIds : flights[f].group # G2(1)
    /\ Cardinality(DOMAIN trips') = Cardinality(DOMAIN trips) - 1
    /\ DOMAIN flights' = DOMAIN flights
    /\ \A f \in FlightIds :
         /\ (flights'[f].group = NoGroup) = (flights[f].group = NoGroup)
         /\ [flights'[f] EXCEPT !.group = NoGroup] = [flights[f] EXCEPT !.group = NoGroup]
         /\ flights[f].group # NoGroup =>
              trips'[flights'[f].group] = trips[flights[f].group]
         /\ \A h \in FlightIds :
              (flights'[f].group = flights'[h].group) = (flights[f].group = flights[h].group)

\* C24: one merge of trip B into trip A moves every flight of B to A,
\* rebuilds A's name with all distinct booking references of its flights,
\* deletes B, which has no flight then, and changes nothing else: flights
\* are neither created nor deleted nor left without a trip, and the flights
\* of other trips and the ungrouped flights keep their assignment.
C24_MergeFrame == [][MergeMoves /\ MergeRenames /\ MergeDeletes]_vars

\* A run that merged the trips of two bookings and left a third flight alone.
C24_Witness ==
  /\ run[1].pc = "done"
  /\ run[1].merged = 1
  /\ \E g \in DOMAIN trips : trips[g].name.refs = {"R1", "R2"}
  /\ \E f \in FlightIds : flights[f].group = NoGroup

\* The flights that were ungrouped when run 1 began, and their references.
UngroupedAtStart == {f \in DOMAIN snap[1].begin[1] : snap[1].begin[1][f].group = NoGroup}
RefsAtStart == {snap[1].begin[1][f].ref : f \in UngroupedAtStart} \ {""}
Members(g) == {f \in FlightIds : flights[f].group = g}

\* After the booking-reference phase: one new trip per reference, holding
\* the flights of that reference that were ungrouped; the rest untouched.
BookingPhaseDone ==
  run[1].pc = "p2_read" =>
    /\ Cardinality(DOMAIN trips) = Cardinality(DOMAIN snap[1].begin[2]) + Cardinality(RefsAtStart)
    /\ \A ref \in RefsAtStart :
         \E g \in DOMAIN trips :
           /\ trips[g].auto /\ trips[g].user = run[1].user
           /\ Members(g) = {f \in UngroupedAtStart : flights[f].ref = ref}
    /\ \A f \in UngroupedAtStart : flights[f].ref = "" => flights[f].group = NoGroup
    /\ \A f \in FlightIds \ UngroupedAtStart : flights[f].group # NoGroup

\* After the proximity phase: of the flights without reference, the clusters
\* of two or more are trips and the single ones are left ungrouped.
ProximityPhaseDone ==
  run[1].pc = "m_groups" /\ run[1].phase = 2 /\ run[1].merged = 0 =>
    \A k \in DOMAIN run[1].clusters :
      LET c == Range(run[1].clusters[k])
      IN IF Cardinality(c) >= 2
         THEN \E g \in DOMAIN trips : trips[g].auto /\ Members(g) = c
         ELSE \A f \in c : flights[f].group = NoGroup

\* C25: the booking-reference phase makes exactly one new trip for each
\* non-empty reference among the flights that were ungrouped, with exactly
\* those flights, one flight or many and however far apart; it groups no
\* flight without reference, and of those only proximity clusters of two or
\* more become trips.
C25_OneTripPerReference == BookingPhaseDone /\ ProximityPhaseDone

\* Two flights of one booking 4 days apart in one new trip, a flight without
\* reference left for the proximity phase.
C25_Witness ==
  /\ run[1].pc = "p2_read"
  /\ 3 \in FlightIds /\ 8 \in FlightIds /\ 1 \in FlightIds
  /\ flights[3].group # NoGroup
  /\ flights[3].group = flights[8].group
  /\ flights[1].group = NoGroup

\* C26: a flight assigned to a trip has the owner of that trip.
C26_SameOwner ==
  \A f \in FlightIds :
    flights[f].group \in DOMAIN trips => trips[flights[f].group].user = flights[f].user

\* C30: the email_message_id values of a user's flights are pairwise
\* distinct, the empty one of flights created by hand included: a user has
\* at most one flight with the empty identifier, and the creation of a
\* flight by hand is refused exactly when the user has one already.
C30_UniqueMessageId ==
  /\ \A f \in FlightIds, h \in FlightIds :
       f # h /\ flights[f].user = flights[h].user => flights[f].key # flights[h].key
  /\ result.fn = "create" => (result.status = "rejected") = result.had

\* A user with a flight taken from an e-mail and a flight created by hand,
\* whose second creation by hand was refused.
C30_Witness ==
  /\ result.fn = "create" /\ result.status = "rejected" /\ result.user = TheUser
  /\ \E f \in FlightIds : flights[f].user = TheUser /\ flights[f].key = ""
  /\ \E f \in FlightIds : flights[f].user = TheUser /\ flights[f].key # ""

\* Run 1 is a sync whose fetch raised.
FetchFailed == job[1].kind = "sync" /\ job[1].pc = "ret" /\ ~job[1].fetched

\* The summary of a sync whose fetch raised: the failure recorded, nothing
\* fetched or created, and the account still gives the bound the fetch had.
FailedSummary ==
  FetchFailed =>
    /\ job[1].errors = <<"Connection error">>
    /\ job[1].msgs = <<>> /\ job[1].created = 0
    /\ job[1].since \in {Never, account.last_synced_at}

\* The steps of such a sync, from the fetch to the return of the summary.
FailedSteps ==
  /\ job[1].kind = "sync" /\ job[1].pc = "fetch" /\ job'[1].pc # "fetch" /\ ~job'[1].fetched
       => /\ job'[1].pc = "ret"
          /\ account' = account /\ flights' = flights /\ trips' = trips /\ run' = run
  /\ FetchFailed /\ job'[1] # job[1]
       => /\ job'[1].pc = "idle"
          /\ account' = account /\ flights' = flights /\ trips' = trips /\ run' = run

Structured ==
  IF call.html = "ok" /\ call.extractor \in {"latam", "sas"}
  THEN Bs4Legs(call.extractor, call.blocks, 1)
  ELSE <<>>

\* C28: the structured extractor runs only for a message with an HTML body
\* and a rule that designates an extractor; when it raises or returns no leg
\* nothing is reported and extract_flights_from_email returns exactly what
\* the regex tier returns; when it returns a leg, its result is returned and
\* the regex tier is not run.
C28_TwoTiers ==
  call.fn = "extract" /\ result.fn = "extract" =>
    IF Structured # <<>>
    THEN ~result.raised /\ result.legs = Structured
    ELSE LET regex == RegexLegs(call.extractor, call.blocks, 1, <<>>)
         IN result.raised = regex.raised /\ result.legs = regex.legs

\* The structured tier found a leg in a message on which the regex tier
\* would raise, and its legs were returned.
C28_Witness ==
  /\ call.fn = "extract" /\ result.fn = "extract"
  /\ Structured # <<>>
  /\ RegexLegs(call.extractor, call.blocks, 1, <<>>).raised
  /\ ~result.raised /\ result.legs = Structured

\* C29: a block with k >= 1 connections, departure D and arrival A, all of
\* whose flight numbers are found, yields k+1 legs in a chain: the first
\* leaves the origin at D, each leg arrives where the next departs, the next
\* departs the declared layover after, all legs last (A - D - layovers) /
\* (k+1), and the last arrives at the destination at A; the block yields no
\* leg when A - D - layovers is zero or negative.
C29_EqualLegsChain ==
  call.fn = "interpolate" /\ result.fn = "interpolate" /\ call.first =>
    LET k == Len(call.layovers)
        legs == result.legs
        air == (call.elapsed - LayoverBefore(call.layovers, k)) * MicrosPerMinute
    IN IF air <= 0 THEN legs = <<>>
       ELSE /\ Len(legs) = k + 1
            /\ legs[1].from = 0 /\ legs[1].dep = 0
            /\ \A i \in 1..k :
                 /\ legs[i].to = legs[i + 1].from
                 /\ legs[i + 1].dep = legs[i].arr + call.layovers[i] * MicrosPerMinute
            /\ \A i \in 1..(k + 1) : (legs[i].arr - legs[i].dep) * (k + 1) = air
            /\ legs[k + 1].to = k + 1
            /\ legs[k + 1].arr = call.elapsed * MicrosPerMinute

====
